---- MODULE Spec2Model ----
(***************************************************************************)
(* Environment lifecycle and action execution of the Pokemon Red trainer:  *)
(* PokemonRedGameWrapper (core/emulator.py), PokemonRedEnv                 *)
(* (core/env_pokemon_red.py), the action table (core/actions.py) and the   *)
(* pipeline factory make_pokemon_red_env (core/env_wrappers.py).           *)
(*                                                                         *)
(* The PyBoy emulator is an external collaborator.  Each PyBoy object the  *)
(* process creates is an instance 1..MaxEmu with a lifecycle state, the    *)
(* number of frames it has executed and an abstract memory image.  What a  *)
(* frame does to memory is decided by the ROM and is not known here, so a  *)
(* tick of a running instance may leave any image.                         *)
(***************************************************************************)
EXTENDS Integers, Sequences, FiniteSets, TLC

\* ---------------------------------------------------------------- bounds
\* PyBoy objects the process may create in one run.
MaxEmu == 3
\* Frames one instance may execute (steps are cut off beyond it).
MaxTicks == 8
\* Abstract memory images are 0..MaxImage; 0 is the power-on image.
MaxImage == 1
MaxPipeTicks == 40
MaxPartyCount == 6

\* Frames the emulator runs between snapshots.
MaxInfoTicks == 1
\* Steps recorded in the histories of the session manager, all together.
MaxHistory == 3
\* Bytes in a list handed to the text decoder.
MaxText == 3

\* The caller's handles: two independent sessions.
Sessions == {"s1", "s2"}
\* The scenarios with one session use the first handle.
One == {"s1"}
Images == 0..MaxImage
EmuIds == 1..MaxEmu

\* ------------------------------------------------------ core/actions.py
KEY_PRESS == "tap"
WAIT == "wait"
None == "None"

\* class KeyName, in definition order (the order `for k in KeyName` yields).
KeyName == <<"A", "B", "UP", "DOWN", "LEFT", "RIGHT", "START", "SELECT">>

\* Action(type=..., key=None)
Action(type, key) == [type |-> type, key |-> key]

\* Mutant: the wait action is put first, shifting every key by one index.
ALL_ACTIONS_wait_first ==
    <<Action(WAIT, None)>> \o [i \in 1..Len(KeyName) |-> Action(KEY_PRESS, KeyName[i])]

\* ALL_ACTIONS = [Action(KEY_PRESS, k) for k in KeyName] + [Action(WAIT)]
ALL_ACTIONS ==
    [i \in 1..Len(KeyName) |-> Action(KEY_PRESS, KeyName[i])] \o <<Action(WAIT, None)>>

\* ------------------------------------------------------------ the inputs
\* step's wait_frames parameter: omitted, or an explicit frame count.
\* An optional argument is the empty tuple when omitted, <<v>> when given.
WaitFrameArgs == {<<>>, <<4>>}
\* The indices a caller may pass: every valid one, and both sides beyond.
ActionIndexArgs == -(Len(ALL_ACTIONS) + 1) .. Len(ALL_ACTIONS)
\* wait_frames: int = 8
DefaultWaitFrames == 8

\* What is at the ROM path when a constructor or PyBoy itself looks at it.
RomStates == {"valid", "missing", "invalid"}
\* The render_mode a caller may pass to PokemonRedEnv.
RenderModeArgs == {None, "human", "rgb_array", "bogus"}
\* The mode a caller may pass to make_pokemon_red_env.
ModeArgs == {"rl", "llm", "human", "bogus"}
\* The (height, width) and the num_stack a caller may pass to
\* make_pokemon_red_env;\* each may be left out.
ShapeArgs == {<<>>, <<<<32, 48>>>>}
StackArgs == {<<>>, <<2>>}
DefaultShape == <<84, 84>>
DefaultNumStack == 4
\* Save-state paths: one in a writable directory, one the OS cannot open.
Paths == {"state.sav", "/nodir/state.sav"}

VARIABLES
    all_actions, \* the module-level list core.actions.ALL_ACTIONS
    sess,        \* per handle: the object the caller holds, if any
    emu,         \* per PyBoy instance: lifecycle state, frames run, memory
    created,     \* number of PyBoy instances created so far
    files,       \* per path: <<>> when no file is there, else <<saved image>>
    ret,         \* the last call: its arguments, the emulator calls it made,
                 \* and what it returned or raised
    pipe,        \* per handle: the observation wrappers around the env
    ram,         \* the work RAM a decoder reads: address -> byte
    given,       \* the arguments of the pure function under study; under
                 \* the snapshot, <<the frames the emulator has run>>
    out,         \* <<>> before the call, else <<what the call produced>>
    sessions     \* SessionManager.sessions: session id -> its record

vars == <<all_actions, sess, emu, created, files, ret, pipe, ram, given, out, sessions>>
\* The variables of the session lifecycle, and the others.
lvars == <<all_actions, sess, emu, created, files, ret>>
xvars == <<pipe, ram, given, out, sessions>>
dvars == <<ram, given, out, sessions>>
\* The variables the session manager leaves alone.
mvars == <<all_actions, sess, emu, created, files, pipe, ram, given, out>>

\* ---------------------------------------------------------------- Python
\* list[i]: indices -len..len-1 are valid, negative ones count from the end.
PyInRange(list, i) == -Len(list) <= i /\ i < Len(list)
PyIndex(list, i) == IF i >= 0 THEN list[i + 1] ELSE list[Len(list) + i + 1]

\* ------------------------------------------------------------ the records
NoSession ==
    [kind |-> "none", render_mode |-> None, mode |-> None, headless |-> TRUE,
     rom_is_str |-> FALSE, pyboy |-> 0, n |-> 0, closed |-> FALSE]

FreeEmu == [state |-> "free", ticks |-> 0, mem |-> 0]
\* A PyBoy object right after its constructor returned: power-on state.
PowerOn == [state |-> "live", ticks |-> 0, mem |-> 0]
\* A stopped instance nothing refers to any more: its contents are garbage
\* no call can observe.
Collected == [state |-> "stopped", ticks |-> 0, mem |-> 0]

Call(e, name, arg) == [e |-> e, name |-> name, arg |-> arg]

\* The outcome of one call: error is "none" when it returned `value`.
Ret(op, s, args, error, calls, value) ==
    [op |-> op, s |-> s, args |-> args, error |-> error,
     calls |-> calls, value |-> value]

\* ------------------------------------------------- the PyBoy collaborator
\* pyboy.tick(n): a stopped instance ignores it; a running one executes n
\* frames and ends with memory image m.
Tick(p, n, m) ==
    IF p.state = "live" /\ n > 0 THEN [p EXCEPT !.ticks = @ + n, !.mem = m] ELSE p
\* pyboy.stop(save=False): stopping twice is harmless.
Stop(p) == [p EXCEPT !.state = "stopped"]
\* Frames a call sequence asks for.
RECURSIVE FramesOf(_)
FramesOf(calls) ==
    IF calls = <<>> THEN 0
    ELSE (IF Head(calls).name = "tick" THEN Head(calls).arg ELSE 0) + FramesOf(Tail(calls))
\* The calls without the instance they went to.
Inputs(calls) == [i \in 1..Len(calls) |-> <<calls[i].name, calls[i].arg>>]
\* The instances a call sequence went to.
Targets(calls) == {calls[i].e : i \in 1..Len(calls)}

\* ------------------------------------- core/emulator.py: the game wrapper
\* The constructor's checks without the hash comparison of lines 69-71.
rom_check_unhashed(rom) ==
    IF rom = "missing" THEN "FileNotFoundError" ELSE "none"

\* __init__, lines 66-71: the checks made before PyBoy is constructed.
rom_check(rom) ==
    IF rom = "missing" THEN "FileNotFoundError"
    ELSE IF rom = "invalid" THEN "ValueError"
    ELSE "none"

\* PyBoy(gamerom=...) itself only needs a file to be there.
pyboy_error(rom) == IF rom = "missing" THEN "FileNotFoundError" ELSE "none"

\* pyboy.screen.image: the frame is a function of the instance's state.
get_screen(p) == [frame |-> p.mem]

\* for btn in button_presses: button(btn); tick(wait_frames)
RECURSIVE press_each(_, _, _)
press_each(e, button_presses, wait_frames) ==
    IF button_presses = <<>> THEN <<>>
    ELSE <<Call(e, "button", Head(button_presses)), Call(e, "tick", wait_frames)>>
         \o press_each(e, Tail(button_presses), wait_frames)

\* Mutant: a press/release pair, the release followed by one more tick.
perform_emulator_action_paired(e, button_presses, wait_frames) ==
    IF button_presses = <<>> THEN <<Call(e, "tick", wait_frames)>>
    ELSE press_each(e, button_presses, wait_frames)
         \o <<Call(e, "release", Head(button_presses)), Call(e, "tick", 1)>>

\* Mutant: a key the previous call already pressed is taken as still held
\* and is not pressed again.
perform_emulator_action_held(e, button_presses, wait_frames) ==
    IF button_presses = <<>> THEN <<Call(e, "tick", wait_frames)>>
    ELSE IF \E i \in 1..Len(ret.calls) :
                ret.calls[i].name = "button" /\ ret.calls[i].arg = Head(button_presses)
    THEN <<Call(e, "tick", wait_frames)>>
    ELSE press_each(e, button_presses, wait_frames)

\* perform_emulator_action(button_presses, wait_frames) on instance e.
perform_emulator_action(e, button_presses, wait_frames) ==
    IF button_presses = <<>> THEN <<Call(e, "tick", wait_frames)>>
    ELSE press_each(e, button_presses, wait_frames)

\* PokemonRedGameWrapper(rom_path=..., headless=...) assigned to handle s.
\* rom_is_str: rom_path was given as a str, not a Path; self.rom_path keeps it.
PokemonRedGameWrapper(s, rom_is_str, headless, rom) ==
    /\ sess[s].kind = "none"
    /\ IF rom_check(rom) # "none"
       THEN /\ ret' = Ret("PokemonRedGameWrapper", s, <<rom_is_str, rom>>,
                          rom_check(rom), <<>>, <<>>)
            /\ UNCHANGED <<all_actions, sess, emu, created, files>>
       ELSE /\ created < MaxEmu
            /\ created' = created + 1
            /\ emu' = [emu EXCEPT ![created + 1] = PowerOn]
            /\ sess' = [sess EXCEPT ![s] =
                          [NoSession EXCEPT !.kind = "wrapper", !.headless = headless,
                                            !.rom_is_str = rom_is_str,
                                            !.pyboy = created + 1]]
            /\ ret' = Ret("PokemonRedGameWrapper", s, <<rom_is_str, rom>>, "none",
                          <<Call(created + 1, "PyBoy", headless)>>, <<>>)
            /\ UNCHANGED <<all_actions, files>>

\* ------------------------------------- core/env_pokemon_red.py: the env
\* PokemonRedEnv(render_mode) assigned to handle s, then wrapped for `mode`
\* (None: the bare env).  The emulator is created first (line 34), the
\* render_mode is asserted last (line 43).
PokemonRedEnv(s, render_mode, rom) ==
    /\ sess[s].kind = "none"
    /\ IF rom_check(rom) # "none"
       THEN /\ ret' = Ret("PokemonRedEnv", s, <<render_mode, rom>>,
                          rom_check(rom), <<>>, <<>>)
            /\ UNCHANGED <<all_actions, sess, emu, created, files>>
       ELSE /\ created < MaxEmu
            /\ created' = created + 1
            /\ emu' = [emu EXCEPT ![created + 1] = PowerOn]
            /\ IF render_mode \in {None, "human", "rgb_array"}
               THEN /\ sess' = [sess EXCEPT ![s] =
                                  [NoSession EXCEPT !.kind = "env",
                                       !.render_mode = render_mode,
                                       !.headless = (render_mode # "human"),
                                       !.pyboy = created + 1,
                                       !.n = Len(all_actions)]]
                    /\ ret' = Ret("PokemonRedEnv", s, <<render_mode, rom>>, "none",
                                  <<Call(created + 1, "PyBoy", render_mode # "human")>>, <<>>)
               ELSE /\ sess' = sess
                    /\ ret' = Ret("PokemonRedEnv", s, <<render_mode, rom>>, "AssertionError",
                                  <<Call(created + 1, "PyBoy", render_mode # "human")>>, <<>>)
            /\ UNCHANGED <<all_actions, files>>

\* Mutant: a reward is paid once memory has left the power-on image.
calculate_reward_progress == IF \E e \in EmuIds : emu[e].mem # 0 THEN 1 ELSE 0

\* Lines 180-193: the placeholders.
calculate_reward == 0
check_terminated == FALSE
check_truncated == FALSE

\* _get_info(): a snapshot decoded from the instance's memory alone.
get_info(p) == [image |-> p.mem]

\* PokemonRedGameWrapper.reset(): what self.rom_path.as_posix() and the PyBoy
\* constructor do, after the running instance was stopped.
reset_error(w, rom) == IF w.rom_is_str THEN "AttributeError" ELSE pyboy_error(rom)

\* reset() of the wrapper, and of the env on top of it (which then reads the
\* screen and the info of the new instance).
reset(s, rom) ==
    /\ sess[s].kind \in {"wrapper", "env"}
    /\ LET old == sess[s].pyboy
           new == created + 1
           err == reset_error(sess[s], rom)
       IN  IF err # "none"
           THEN /\ emu' = [emu EXCEPT ![old] = Stop(@)]
                /\ ret' = Ret("reset", s, <<rom>>, err, <<Call(old, "stop", FALSE)>>, <<>>)
                /\ UNCHANGED <<all_actions, sess, created, files>>
           ELSE /\ created < MaxEmu
                /\ created' = new
                /\ emu' = [emu EXCEPT ![old] = Collected, ![new] = PowerOn]
                /\ sess' = [sess EXCEPT ![s].pyboy = new]
                /\ ret' = Ret("reset", s, <<rom>>, "none",
                              <<Call(old, "stop", FALSE), Call(new, "PyBoy", sess[s].headless)>>,
                              IF sess[s].kind = "env"
                              THEN <<get_screen(PowerOn), get_info(PowerOn)>> ELSE <<>>)
                /\ UNCHANGED <<all_actions, files>>

\* The emulator calls of step(action_idx, wait_frames), lines 87-91.
step_calls(e, action, wait_frames) ==
    IF action.type = KEY_PRESS /\ action.key # None
    THEN perform_emulator_action(e, <<action.key>>, wait_frames)
    ELSE IF action.type = WAIT
    THEN perform_emulator_action(e, <<>>, wait_frames)
    ELSE <<>>

\* step(action_idx[, wait_frames]); wf is the optional argument.  The model
\* stops an instance after max_ticks frames.
step_bounded(s, action_idx, wf, max_ticks) ==
    /\ sess[s].kind = "env"
    /\ LET e == sess[s].pyboy
           wait_frames == IF wf = <<>> THEN DefaultWaitFrames ELSE wf[1]
       IN  IF ~PyInRange(all_actions, action_idx)
           THEN /\ ret' = Ret("step", s, <<action_idx>> \o wf, "IndexError", <<>>, <<>>)
                /\ UNCHANGED <<all_actions, sess, emu, created, files>>
           ELSE LET calls == step_calls(e, PyIndex(all_actions, action_idx), wait_frames)
                IN  /\ emu[e].ticks + FramesOf(calls) <= max_ticks
                    /\ \E m \in Images :
                          LET after == Tick(emu[e], FramesOf(calls), m)
                          IN  /\ emu' = [emu EXCEPT ![e] = after]
                              /\ ret' = Ret("step", s, <<action_idx>> \o wf, "none", calls,
                                            <<get_screen(after), calculate_reward,
                                              check_terminated, check_truncated,
                                              get_info(after)>>)
                    /\ UNCHANGED <<all_actions, sess, created, files>>

step(s, action_idx, wf) == step_bounded(s, action_idx, wf, MaxTicks)

\* render(), lines 109-121.
render(s) ==
    /\ sess[s].kind = "env"
    /\ LET e == sess[s].pyboy
       IN  IF sess[s].render_mode = "rgb_array"
           THEN /\ ret' = Ret("render", s, <<>>, "none", <<>>, <<get_screen(emu[e])>>)
                /\ UNCHANGED <<all_actions, sess, emu, created, files>>
           ELSE IF sess[s].render_mode = "human"
           THEN /\ emu[e].ticks + 1 <= MaxTicks
                /\ \E m \in Images :
                      emu' = [emu EXCEPT ![e] = Tick(@, 1, m)]
                /\ ret' = Ret("render", s, <<>>, "none", <<Call(e, "tick", 1)>>, <<None>>)
                /\ UNCHANGED <<all_actions, sess, created, files>>
           ELSE \* super().render() of gym.Env
                /\ ret' = Ret("render", s, <<>>, "NotImplementedError", <<>>, <<>>)
                /\ UNCHANGED <<all_actions, sess, emu, created, files>>

\* open(file_path, "wb") / open(file_path, "rb")
can_open(path, how) ==
    IF how = "wb" THEN path = "state.sav" ELSE files[path] # <<>>

\* save_state(file_path), lines 129-130.
save_state(s, path) ==
    /\ sess[s].kind = "env"
    /\ LET e == sess[s].pyboy
       IN  IF ~can_open(path, "wb")
           THEN /\ ret' = Ret("save_state", s, <<path>>, "OSError", <<>>, <<>>)
                /\ UNCHANGED <<all_actions, sess, emu, created, files>>
           ELSE /\ files' = [files EXCEPT ![path] = <<emu[e].mem>>]
                /\ ret' = Ret("save_state", s, <<path>>, "none",
                              <<Call(e, "save_state", path)>>, <<>>)
                /\ UNCHANGED <<all_actions, sess, emu, created>>

\* Mutant: a load that cannot open its file falls back to the power-on
\* image, replacing what the running instance held.
load_state_fallback(s, path) ==
    /\ sess[s].kind = "env"
    /\ LET e == sess[s].pyboy
       IN  IF ~can_open(path, "rb")
           THEN /\ emu' = [emu EXCEPT ![e].mem = 0]
                /\ ret' = Ret("load_state", s, <<path>>, "OSError",
                              <<Call(e, "load_state", path)>>, <<>>)
                /\ UNCHANGED <<all_actions, sess, created, files>>
           ELSE /\ emu' = [emu EXCEPT ![e].mem = files[path][1]]
                /\ ret' = Ret("load_state", s, <<path>>, "none",
                              <<Call(e, "load_state", path)>>, <<>>)
                /\ UNCHANGED <<all_actions, sess, created, files>>

\* load_state(file_path), lines 138-139.
load_state(s, path) ==
    /\ sess[s].kind = "env"
    /\ LET e == sess[s].pyboy
       IN  IF ~can_open(path, "rb")
           THEN /\ ret' = Ret("load_state", s, <<path>>, "OSError", <<>>, <<>>)
                /\ UNCHANGED <<all_actions, sess, emu, created, files>>
           ELSE /\ emu' = [emu EXCEPT ![e].mem = files[path][1]]
                /\ ret' = Ret("load_state", s, <<path>>, "none",
                              <<Call(e, "load_state", path)>>, <<>>)
                /\ UNCHANGED <<all_actions, sess, created, files>>

\* close() of the env (line 158) and of the wrapper (line 514).  closed is a
\* history flag: the code keeps no record that close was called.
close(s) ==
    /\ sess[s].kind \in {"wrapper", "env"}
    /\ LET e == sess[s].pyboy
       IN  /\ emu' = [emu EXCEPT ![e] = Stop(@)]
           /\ sess' = [sess EXCEPT ![s].closed = TRUE]
           /\ ret' = Ret("close", s, <<>>, "none", <<Call(e, "stop", FALSE)>>, <<>>)
    /\ UNCHANGED <<all_actions, created, files>>

\* ------------------------------------------------ core/env_wrappers.py
\* make_pokemon_red_env(mode): PokemonRedEnv() is built first (line 57), the
\* mode is looked at afterwards (lines 58-72).
make_pokemon_red_env(s, mode, rom) ==
    /\ sess[s].kind = "none"
    /\ IF rom_check(rom) # "none"
       THEN /\ ret' = Ret("make_pokemon_red_env", s, <<mode, rom>>,
                          rom_check(rom), <<>>, <<>>)
            /\ UNCHANGED <<all_actions, sess, emu, created, files>>
       ELSE /\ created < MaxEmu
            /\ created' = created + 1
            /\ emu' = [emu EXCEPT ![created + 1] = PowerOn]
            /\ IF mode \in {"rl", "llm", "human"}
               THEN /\ sess' = [sess EXCEPT ![s] =
                                  [NoSession EXCEPT !.kind = "env", !.mode = mode,
                                       !.pyboy = created + 1, !.n = Len(all_actions)]]
                    /\ ret' = Ret("make_pokemon_red_env", s, <<mode, rom>>, "none",
                                  <<Call(created + 1, "PyBoy", TRUE)>>, <<>>)
               ELSE /\ sess' = sess
                    /\ ret' = Ret("make_pokemon_red_env", s, <<mode, rom>>, "ValueError",
                                  <<Call(created + 1, "PyBoy", TRUE)>>, <<>>)
            /\ UNCHANGED <<all_actions, files>>

\* ------------------------------------ observations and their wrappers
\* An observation is a tensor: its shape, the planes along its last axis,
\* and the frames it was computed from, each named by the instance that
\* drew it and the frame count at which it was drawn.
Tensor(shape, chan, src) == [shape |-> shape, chan |-> chan, src |-> src]

\* PokemonRedEnv.observation_space: Box(0, 255, shape=(144, 160, 4)).
NativeSpace == <<144, 160, 4>>
\* np.array(self.emu.get_screen()) for instance e in state p: an RGBA image.
Observation(e, p) ==
    Tensor(NativeSpace,
           <<<<"R", p.mem>>, <<"G", p.mem>>, <<"B", p.mem>>, <<"A", p.mem>>>>,
           <<<<e, p.ticks>>>>)

\* seq[:n] and seq[-1] of Python, for n >= 0.
PyPrefix(seq, n) == SubSeq(seq, 1, IF n < Len(seq) THEN n ELSE Len(seq))
PyLast(seq) == seq[Len(seq)]

\* What a wrapper's constructor gives: an error, or the wrapper's
\* observation-space shape.
Built(error, space) == [error |-> error, space |-> space]

\* DropAlpha.observation with the slice left out.
DropAlpha_observation_keep(obs) == obs

\* DropAlpha.__init__ looking at the number of axes only.
DropAlpha_init_any_channels(space) ==
    IF ~(Len(space) = 3)
    THEN Built("ValueError", <<>>)
    ELSE Built("none", PyPrefix(space, Len(space) - 1)
                       \o <<Len(PyPrefix([i \in 1..PyLast(space) |-> i], 3))>>)

\* DropAlpha.__init__ over a space of shape `space`, lines 22-30.
DropAlpha_init(space) ==
    IF ~(Len(space) = 3 /\ PyLast(space) = 4)
    THEN Built("ValueError", <<>>)
    ELSE Built("none", PyPrefix(space, Len(space) - 1)
                       \o <<Len(PyPrefix([i \in 1..PyLast(space) |-> i], 3))>>)

\* DropAlpha.observation, lines 32-34: obs[..., :3].
DropAlpha_observation(obs) ==
    LET kept == PyPrefix(obs.chan, 3)
    IN  Tensor(PyPrefix(obs.shape, Len(obs.shape) - 1) \o <<Len(kept)>>,
               kept, obs.src)

\* gymnasium's ResizeObservation(env, shape): the first two axes become
\* (height, width).
ResizeObservation_init(space, shape) ==
    Built("none", shape \o SubSeq(space, 3, Len(space)))
ResizeObservation_observation(obs, shape) ==
    Tensor(shape \o SubSeq(obs.shape, 3, Len(obs.shape)), obs.chan, obs.src)

\* gymnasium's GrayscaleObservation(env, keep_dim=True): an RGB image becomes
\* its luminance, in one trailing channel.
GrayscaleObservation_init(space) ==
    IF ~(Len(space) = 3 /\ PyLast(space) = 3)
    THEN Built("AssertionError", <<>>)
    ELSE Built("none", PyPrefix(space, 2) \o <<1>>)
GrayscaleObservation_observation(obs) ==
    Tensor(PyPrefix(obs.shape, 2) \o <<1>>, <<<<"Y", obs.chan[1][2]>>>>, obs.src)

\* gymnasium's FrameStackObservation(env, stack_size): a queue of the last
\* stack_size observations, all zero at construction, filled with the first
\* observation at reset, shifted by one at each step; the stacked
\* observation has the queue along a new leading axis.
ZeroObservation(space) ==
    Tensor(space, [i \in 1..PyLast(space) |-> <<"0", 0>>], <<<<0, 0>>>>)
FrameStackObservation_init(space, stack_size) == Built("none", <<stack_size>> \o space)
FrameStackObservation_queue(space, stack_size) ==
    [i \in 1..stack_size |-> ZeroObservation(space)]
FrameStackObservation_reset(obs_queue, obs) == [i \in 1..Len(obs_queue) |-> obs]
FrameStackObservation_step(obs_queue, obs) == Tail(obs_queue) \o <<obs>>
\* The stacked observation, oldest frame first.
Stacked(obs_queue) ==
    Tensor(<<Len(obs_queue)>> \o obs_queue[1].shape,
           [i \in 1..Len(obs_queue) |-> obs_queue[i].chan],
           [i \in 1..Len(obs_queue) |-> obs_queue[i].src[1]])

\* The 'rl' preset without its last wrapper.
Wrappers_unstacked(mode) ==
    IF mode = "rl" THEN <<"ResizeObservation", "DropAlpha", "GrayscaleObservation">>
    ELSE IF mode = "llm" THEN <<"ResizeObservation", "DropAlpha">>
    ELSE IF mode = "human" THEN <<"DropAlpha">>
    ELSE <<>>

\* The wrappers make_pokemon_red_env puts around the env, innermost first,
\* lines 58-70.
Wrappers(mode) ==
    IF mode = "rl"
    THEN <<"ResizeObservation", "DropAlpha", "GrayscaleObservation",
           "FrameStackObservation">>
    ELSE IF mode = "llm" THEN <<"ResizeObservation", "DropAlpha">>
    ELSE IF mode = "human" THEN <<"DropAlpha">>
    ELSE <<>>

\* The wrappers around one env: their names, the arguments they were built
\* with, the observation-space shape of the outermost one, the frame queue,
\* and the observation the outermost one returned last (<<>> when the call
\* raised or none was made).
NoPipe ==
    [layers |-> <<>>, shape |-> <<>>, stack_size |-> 0, space |-> <<>>,
     obs_queue |-> <<>>, obs |-> <<>>]

\* The constructor of one wrapper over a space.
layer_init(name, space, shape, num_stack) ==
    IF name = "ResizeObservation" THEN ResizeObservation_init(space, shape)
    ELSE IF name = "DropAlpha" THEN DropAlpha_init(space)
    ELSE IF name = "GrayscaleObservation" THEN GrayscaleObservation_init(space)
    ELSE FrameStackObservation_init(space, num_stack)

\* The constructors of the wrappers in turn, the first error ending it.
RECURSIVE wrap(_, _, _, _)
wrap(layers, space, shape, num_stack) ==
    IF layers = <<>> THEN Built("none", space)
    ELSE LET b == layer_init(Head(layers), space, shape, num_stack)
         IN  IF b.error # "none" THEN b
             ELSE wrap(Tail(layers), b.space, shape, num_stack)

\* The observation of the env as the observation wrappers return it; the
\* frame stack, which is not one of them, is left to its queue.
RECURSIVE observation(_, _, _)
observation(layers, shape, obs) ==
    IF layers = <<>> \/ Head(layers) = "FrameStackObservation" THEN obs
    ELSE observation(Tail(layers), shape,
            IF Head(layers) = "ResizeObservation"
            THEN ResizeObservation_observation(obs, shape)
            ELSE IF Head(layers) = "DropAlpha" THEN DropAlpha_observation(obs)
            ELSE GrayscaleObservation_observation(obs))

IsStacked(w) == w.layers # <<>> /\ PyLast(w.layers) = "FrameStackObservation"

\* DropAlpha(env) over an env whose observation space has shape
\* given.space: the constructor raises or leaves a wrapper with its space.
DropAlpha ==
    /\ out = <<>>
    /\ LET b == DropAlpha_init(given.space)
       IN  out' = <<[op |-> "DropAlpha", error |-> b.error, space |-> b.space,
                     obs |-> <<>>]>>
    /\ UNCHANGED <<lvars, pipe, ram, given, sessions>>

\* wrapper.observation(given.obs) on the wrapper that was built.
DropAlpha_call ==
    /\ out # <<>> /\ out[1].op = "DropAlpha" /\ out[1].error = "none"
    /\ out' = <<[out[1] EXCEPT !.op = "observation",
                               !.obs = <<DropAlpha_observation(given.obs)>>]>>
    /\ UNCHANGED <<lvars, pipe, ram, given, sessions>>

\* What the outermost wrapper returns for the env's observation o, and the
\* queue it leaves: the frame stack refills its queue at reset and shifts it
\* at step.
Handed(w, o, refill) ==
    LET t == observation(w.layers, w.shape, o)
        q == IF refill THEN FrameStackObservation_reset(w.obs_queue, t)
             ELSE FrameStackObservation_step(w.obs_queue, t)
    IN  IF IsStacked(w)
        THEN [w EXCEPT !.obs_queue = q, !.obs = <<Stacked(q)>>]
        ELSE [w EXCEPT !.obs = <<t>>]

\* make_pokemon_red_env(mode, shape, num_stack), lines 57-73, with the
\* wrappers it builds; over the env's own space none of their constructors
\* raises.
make_wrapped_env(s, mode, shape_arg, num_stack_arg, rom) ==
    /\ make_pokemon_red_env(s, mode, rom)
    /\ LET shape == IF shape_arg = <<>> THEN DefaultShape ELSE shape_arg[1]
           num_stack == IF num_stack_arg = <<>> THEN DefaultNumStack
                        ELSE num_stack_arg[1]
           b == wrap(Wrappers(mode), NativeSpace, shape, num_stack)
           w == [layers |-> Wrappers(mode), shape |-> shape,
                 stack_size |-> num_stack, space |-> b.space,
                 obs_queue |-> <<>>, obs |-> <<>>]
       IN  pipe' = IF ret'.error # "none" THEN pipe
                   ELSE [pipe EXCEPT ![s] =
                           IF IsStacked(w)
                           THEN [w EXCEPT !.obs_queue =
                                   FrameStackObservation_queue(Tail(b.space), num_stack)]
                           ELSE w]
    /\ UNCHANGED dvars

\* reset() of the wrapped env: every wrapper hands the call down to
\* PokemonRedEnv.reset and transforms what comes back; an exception passes
\* through them untouched.
wrapped_reset(s, rom) ==
    /\ pipe[s].layers # <<>>
    /\ reset(s, rom)
    /\ pipe' = [pipe EXCEPT ![s] =
                  IF ret'.error # "none" THEN [@ EXCEPT !.obs = <<>>]
                  ELSE Handed(@, Observation(sess'[s].pyboy, emu'[sess'[s].pyboy]), TRUE)]
    /\ UNCHANGED dvars

\* step(action) of the wrapped env; the wrappers pass one argument, so
\* wait_frames keeps its default.
wrapped_step(s, action_idx) ==
    /\ pipe[s].layers # <<>>
    /\ step_bounded(s, action_idx, <<>>, MaxPipeTicks)
    /\ pipe' = [pipe EXCEPT ![s] =
                  IF ret'.error # "none" THEN [@ EXCEPT !.obs = <<>>]
                  ELSE Handed(@, Observation(sess'[s].pyboy, emu'[sess'[s].pyboy]), FALSE)]
    /\ UNCHANGED dvars

\* ------------------------------------ core/emulator.py: the RAM decoders
Bytes == 0 .. 255

\* x >> n, x << n, x & y and x | y on non-negative integers.
ShiftRight(x, n) == x \div (2 ^ n)
ShiftLeft(x, n) == x * (2 ^ n)
RECURSIVE BitAnd(_, _)
BitAnd(x, y) ==
    IF x = 0 \/ y = 0 THEN 0
    ELSE (IF x % 2 = 1 /\ y % 2 = 1 THEN 1 ELSE 0) + 2 * BitAnd(x \div 2, y \div 2)
RECURSIVE BitOr(_, _)
BitOr(x, y) ==
    IF x = 0 THEN y ELSE IF y = 0 THEN x
    ELSE (IF x % 2 = 1 \/ y % 2 = 1 THEN 1 ELSE 0) + 2 * BitOr(x \div 2, y \div 2)

\* get_memory_value(addr), lines 177-179, on the memory m.
get_memory_value(m, addr) == m[addr]

\* What a decoder did: the value it returned, the addresses it read, in
\* order, and the bytes it logged a warning about.
Decoded(value, reads, diag) == [value |-> value, reads |-> reads, diag |-> diag]
\* The record of a decoder call in `out`.
Outcome(op, d) == <<[op |-> op, value |-> d.value, reads |-> d.reads, diag |-> d.diag]>>

\* _decode_bcd returning both digits whatever they are.
decode_bcd_anyway(bcd_value) ==
    LET high_nibble == BitAnd(ShiftRight(bcd_value, 4), 15)
        low_nibble == BitAnd(bcd_value, 15)
    IN  IF high_nibble > 9 \/ low_nibble > 9
        THEN Decoded(high_nibble * 10 + low_nibble, <<>>, <<bcd_value>>)
        ELSE Decoded(high_nibble * 10 + low_nibble, <<>>, <<>>)

\* _decode_bcd(bcd_value), lines 469-485.
decode_bcd(bcd_value) ==
    LET high_nibble == BitAnd(ShiftRight(bcd_value, 4), 15)
        low_nibble == BitAnd(bcd_value, 15)
    IN  IF high_nibble > 9 \/ low_nibble > 9
        THEN Decoded(0, <<>>, <<bcd_value>>)
        ELSE Decoded(high_nibble * 10 + low_nibble, <<>>, <<>>)

\* One call of _decode_bcd on the byte given.
decode_bcd_call ==
    /\ out = <<>>
    /\ out' = Outcome("decode_bcd", decode_bcd(given[1]))
    /\ UNCHANGED <<lvars, pipe, ram, given, sessions>>

\* The RAM map, lines 27-42.
PARTY_COUNT_ADDR == \hD163
MONEY_ADDR == \hD347
RIVAL_NAME_ADDR == \hD34A
PLAYER_NAME_ADDR == \hD158
POKEDEX_OWNED_ADDR == \hD2F7
POKEDEX_SEEN_ADDR == \hD30A
PARTY_SPECIES_LIST_ADDR == \hD164
PARTY_TERMINATOR == \hFF

\* get_player_money giving nothing as soon as one byte is not BCD.
get_player_money_all_or_nothing(m) ==
    LET bcd1 == decode_bcd(get_memory_value(m, MONEY_ADDR))
        bcd2 == decode_bcd(get_memory_value(m, MONEY_ADDR + 1))
        bcd3 == decode_bcd(get_memory_value(m, MONEY_ADDR + 2))
        diag == bcd1.diag \o bcd2.diag \o bcd3.diag
    IN  Decoded(IF diag # <<>> THEN 0
                ELSE bcd1.value * 10000 + bcd2.value * 100 + bcd3.value,
                <<MONEY_ADDR, MONEY_ADDR + 1, MONEY_ADDR + 2>>, diag)

\* get_player_money(), lines 202-211.
get_player_money(m) ==
    LET bcd1 == get_memory_value(m, MONEY_ADDR)
        bcd2 == get_memory_value(m, MONEY_ADDR + 1)
        bcd3 == get_memory_value(m, MONEY_ADDR + 2)
    IN  Decoded(decode_bcd(bcd1).value * 10000 + decode_bcd(bcd2).value * 100
                    + decode_bcd(bcd3).value,
                <<MONEY_ADDR, MONEY_ADDR + 1, MONEY_ADDR + 2>>,
                decode_bcd(bcd1).diag \o decode_bcd(bcd2).diag \o decode_bcd(bcd3).diag)

get_player_money_call ==
    /\ out = <<>>
    /\ out' = Outcome("get_player_money", get_player_money(ram))
    /\ UNCHANGED <<lvars, pipe, ram, given, sessions>>

\* The loop of _read_little_endian from index i on, lines 421-423.
RECURSIVE little_endian_loop(_, _, _, _, _, _)
little_endian_loop(m, start_addr, num_bytes, i, value, reads) ==
    IF i >= num_bytes THEN Decoded(value, reads, <<>>)
    ELSE LET byte_val == get_memory_value(m, start_addr + i)
         IN  little_endian_loop(m, start_addr, num_bytes, i + 1,
                                value + ShiftLeft(byte_val, 8 * i),
                                Append(reads, start_addr + i))

\* _read_little_endian with the first byte taken as the most significant.
read_big_endian(m, start_addr, num_bytes) ==
    Decoded(little_endian_loop([a \in start_addr .. start_addr + num_bytes - 1 |->
                                   m[2 * start_addr + num_bytes - 1 - a]],
                               start_addr, num_bytes, 0, 0, <<>>).value,
            [i \in 1..num_bytes |-> start_addr + i - 1], <<>>)

\* _read_little_endian(start_addr, num_bytes), lines 408-424.
read_little_endian(m, start_addr, num_bytes) ==
    little_endian_loop(m, start_addr, num_bytes, 0, 0, <<>>)

\* get_pokedex_owned_count(), lines 246-254.
get_pokedex_owned_count(m) ==
    LET lsb == get_memory_value(m, POKEDEX_OWNED_ADDR)
        msb == get_memory_value(m, POKEDEX_OWNED_ADDR + 1)
    IN  Decoded(lsb + (msb * 256), <<POKEDEX_OWNED_ADDR, POKEDEX_OWNED_ADDR + 1>>, <<>>)

\* get_pokedex_seen_count(), lines 256-263.
get_pokedex_seen_count(m) ==
    LET lsb == get_memory_value(m, POKEDEX_SEEN_ADDR)
        msb == get_memory_value(m, POKEDEX_SEEN_ADDR + 1)
    IN  Decoded(lsb + (msb * 256), <<POKEDEX_SEEN_ADDR, POKEDEX_SEEN_ADDR + 1>>, <<>>)

read_little_endian_call ==
    /\ out = <<>>
    /\ out' = Outcome("read_little_endian", read_little_endian(ram, given[1], given[2]))
    /\ UNCHANGED <<lvars, pipe, ram, given, sessions>>

get_pokedex_owned_count_call ==
    /\ out = <<>>
    /\ out' = Outcome("get_pokedex_owned_count", get_pokedex_owned_count(ram))
    /\ UNCHANGED <<lvars, pipe, ram, given, sessions>>

get_pokedex_seen_count_call ==
    /\ out = <<>>
    /\ out' = Outcome("get_pokedex_seen_count", get_pokedex_seen_count(ram))
    /\ UNCHANGED <<lvars, pipe, ram, given, sessions>>

\* _extract_ivs with the nibbles of the first byte exchanged.
extract_ivs_swapped(iv_byte1, iv_byte2) ==
    LET attack_iv == BitAnd(iv_byte1, 15)
        defense_iv == BitAnd(ShiftRight(iv_byte1, 4), 15)
        speed_iv == BitAnd(ShiftRight(iv_byte2, 4), 15)
        special_iv == BitAnd(iv_byte2, 15)
        hp_iv == BitOr(BitOr(BitOr(ShiftLeft(BitAnd(attack_iv, 1), 3),
                                   ShiftLeft(BitAnd(defense_iv, 1), 2)),
                             ShiftLeft(BitAnd(speed_iv, 1), 1)),
                       BitAnd(special_iv, 1))
    IN  Decoded([hp |-> hp_iv, attack |-> attack_iv, defense |-> defense_iv,
                 speed |-> speed_iv, special |-> special_iv], <<>>, <<>>)

\* _extract_ivs(iv_byte1, iv_byte2), lines 426-441.
extract_ivs(iv_byte1, iv_byte2) ==
    LET attack_iv == BitAnd(ShiftRight(iv_byte1, 4), 15)
        defense_iv == BitAnd(iv_byte1, 15)
        speed_iv == BitAnd(ShiftRight(iv_byte2, 4), 15)
        special_iv == BitAnd(iv_byte2, 15)
        hp_iv == BitOr(BitOr(BitOr(ShiftLeft(BitAnd(attack_iv, 1), 3),
                                   ShiftLeft(BitAnd(defense_iv, 1), 2)),
                             ShiftLeft(BitAnd(speed_iv, 1), 1)),
                       BitAnd(special_iv, 1))
    IN  Decoded([hp |-> hp_iv, attack |-> attack_iv, defense |-> defense_iv,
                 speed |-> speed_iv, special |-> special_iv], <<>>, <<>>)

extract_ivs_call ==
    /\ out = <<>>
    /\ out' = Outcome("extract_ivs", extract_ivs(given[1], given[2]))
    /\ UNCHANGED <<lvars, pipe, ram, given, sessions>>

\* The table POKEMON_CHARS of _decode_text, lines 453-466: the characters a
\* byte stands for, none for the terminator, "?" for a byte not in the table.
Upper ==
    <<"A", "B", "C", "D", "E", "F", "G", "H", "I", "J", "K", "L", "M",
      "N", "O", "P", "Q", "R", "S", "T", "U", "V", "W", "X", "Y", "Z">>
Lower ==
    <<"a", "b", "c", "d", "e", "f", "g", "h", "i", "j", "k", "l", "m",
      "n", "o", "p", "q", "r", "s", "t", "u", "v", "w", "x", "y", "z">>
Digits == <<"0", "1", "2", "3", "4", "5", "6", "7", "8", "9">>
POKEMON_CHARS(byte) ==
    IF byte = \h50 THEN <<>>
    ELSE IF byte = \h7F THEN <<" ">>
    ELSE IF byte >= \h80 /\ byte <= \h99 THEN <<Upper[byte - \h80 + 1]>>
    ELSE IF byte >= \hA0 /\ byte <= \hB9 THEN <<Lower[byte - \hA0 + 1]>>
    ELSE IF byte >= \hF6 /\ byte <= \hFF THEN <<Digits[byte - \hF6 + 1]>>
    ELSE <<"?">>

\* _decode_text that stops at the first terminator.
RECURSIVE decode_text_terminated(_)
decode_text_terminated(byte_list) ==
    IF byte_list = <<>> \/ Head(byte_list) = \h50 THEN <<>>
    ELSE POKEMON_CHARS(Head(byte_list)) \o decode_text_terminated(Tail(byte_list))

\* _decode_text(byte_list), line 467: the string as its sequence of
\* characters.
RECURSIVE decode_text(_)
decode_text(byte_list) ==
    IF byte_list = <<>> THEN <<>>
    ELSE POKEMON_CHARS(Head(byte_list)) \o decode_text(Tail(byte_list))

decode_text_call ==
    /\ out = <<>>
    /\ out' = Outcome("decode_text", Decoded(decode_text(given[1]), <<>>, <<>>))
    /\ UNCHANGED <<lvars, pipe, ram, given, sessions>>

\* The loop of the name readers from index i on, lines 217-223 and 230-235.
RECURSIVE name_loop(_, _, _, _, _, _)
name_loop(m, addr, max_len, i, name_bytes, reads) ==
    IF i >= max_len THEN Decoded(decode_text(name_bytes), reads, <<>>)
    ELSE LET byte == get_memory_value(m, addr + i)
         IN  IF byte = \h50
             THEN Decoded(decode_text(name_bytes), Append(reads, addr + i), <<>>)
             ELSE name_loop(m, addr, max_len, i + 1, Append(name_bytes, byte),
                            Append(reads, addr + i))

\* get_rival_name with room for the terminator in max_len.
get_rival_name_eight(m) == name_loop(m, RIVAL_NAME_ADDR, 8, 0, <<>>, <<>>)

\* get_rival_name(), lines 213-224.
get_rival_name(m) == name_loop(m, RIVAL_NAME_ADDR, 7, 0, <<>>, <<>>)
\* get_player_name(), lines 226-236.
get_player_name(m) == name_loop(m, PLAYER_NAME_ADDR, 7, 0, <<>>, <<>>)

get_rival_name_call ==
    /\ out = <<>>
    /\ out' = Outcome("get_rival_name", get_rival_name(ram))
    /\ UNCHANGED <<lvars, pipe, ram, given, sessions>>

get_player_name_call ==
    /\ out = <<>>
    /\ out' = Outcome("get_player_name", get_player_name(ram))
    /\ UNCHANGED <<lvars, pipe, ram, given, sessions>>

\* get_party_count(), lines 197-200: the byte as it is.
get_party_count(m) ==
    Decoded(get_memory_value(m, PARTY_COUNT_ADDR), <<PARTY_COUNT_ADDR>>, <<>>)

\* The loop of get_party_species with `left` rounds to go, lines 294-299.
RECURSIVE species_loop(_, _, _, _, _)
species_loop(m, left, current_addr, species_list, reads) ==
    IF left = 0 THEN Decoded(species_list, reads, <<>>)
    ELSE LET species_id == get_memory_value(m, current_addr)
         IN  IF species_id = PARTY_TERMINATOR
             THEN Decoded(species_list, Append(reads, current_addr), <<>>)
             ELSE species_loop(m, left - 1, current_addr + 1,
                               Append(species_list, species_id),
                               Append(reads, current_addr))

\* get_party_species taking party_count bytes whatever they are.
get_party_species_unchecked(m) ==
    LET party_count == get_party_count(m)
    IN  Decoded([i \in 1..party_count.value |->
                    get_memory_value(m, PARTY_SPECIES_LIST_ADDR + i - 1)],
                party_count.reads, <<>>)

\* get_party_species that gives the list up when no terminator follows it.
get_party_species_strict(m) ==
    LET party_count == get_party_count(m)
    IN  IF party_count.value = 0 THEN Decoded(<<>>, party_count.reads, <<>>)
        ELSE LET l == species_loop(m, party_count.value, PARTY_SPECIES_LIST_ADDR,
                                   <<>>, party_count.reads)
                 after == PARTY_SPECIES_LIST_ADDR + party_count.value
             IN  IF get_memory_value(m, after) # PARTY_TERMINATOR
                 THEN Decoded(<<>>, Append(l.reads, after), <<after>>)
                 ELSE Decoded(l.value, Append(l.reads, after), <<>>)

\* get_party_species(), lines 279-305; the last read is the one that looks
\* for the terminator after party_count entries and warns when it is not
\* there.
get_party_species(m) ==
    LET party_count == get_party_count(m)
    IN  IF party_count.value = 0 THEN Decoded(<<>>, party_count.reads, <<>>)
        ELSE LET l == species_loop(m, party_count.value, PARTY_SPECIES_LIST_ADDR,
                                   <<>>, party_count.reads)
                 after == PARTY_SPECIES_LIST_ADDR + party_count.value
             IN  Decoded(l.value, Append(l.reads, after),
                         IF get_memory_value(m, after) # PARTY_TERMINATOR
                         THEN <<after>> ELSE <<>>)

get_party_species_call ==
    /\ out = <<>>
    /\ out' = Outcome("get_party_species", get_party_species(ram))
    /\ UNCHANGED <<lvars, pipe, ram, given, sessions>>

\* More of the RAM map, lines 27-37.
PLAYER_X_ADDR == \hD361
PLAYER_Y_ADDR == \hD362
MAP_ID_ADDR == \hD35E
BADGES_ADDR == \hD356
TIME_PLAYED_ADDR == \hDA40

\* The one-byte getters, lines 181-195 and 238-244.
get_player_x(m) == Decoded(get_memory_value(m, PLAYER_X_ADDR), <<PLAYER_X_ADDR>>, <<>>)
get_player_y(m) == Decoded(get_memory_value(m, PLAYER_Y_ADDR), <<PLAYER_Y_ADDR>>, <<>>)
get_current_map_id(m) == Decoded(get_memory_value(m, MAP_ID_ADDR), <<MAP_ID_ADDR>>, <<>>)
get_badges(m) == Decoded(get_memory_value(m, BADGES_ADDR), <<BADGES_ADDR>>, <<>>)

\* get_time_played with minutes and seconds exchanged.
get_time_played_swapped(m) ==
    LET hours == decode_bcd(get_memory_value(m, TIME_PLAYED_ADDR))
        minutes == decode_bcd(get_memory_value(m, TIME_PLAYED_ADDR + 2))
        seconds == decode_bcd(get_memory_value(m, TIME_PLAYED_ADDR + 1))
        frames == decode_bcd(get_memory_value(m, TIME_PLAYED_ADDR + 3))
    IN  Decoded(<<hours.value, minutes.value, seconds.value, frames.value>>,
                <<TIME_PLAYED_ADDR, TIME_PLAYED_ADDR + 1, TIME_PLAYED_ADDR + 2,
                  TIME_PLAYED_ADDR + 3>>,
                hours.diag \o seconds.diag \o minutes.diag \o frames.diag)

\* get_time_played(), lines 265-277.
get_time_played(m) ==
    LET hours == decode_bcd(get_memory_value(m, TIME_PLAYED_ADDR))
        minutes == decode_bcd(get_memory_value(m, TIME_PLAYED_ADDR + 1))
        seconds == decode_bcd(get_memory_value(m, TIME_PLAYED_ADDR + 2))
        frames == decode_bcd(get_memory_value(m, TIME_PLAYED_ADDR + 3))
    IN  Decoded(<<hours.value, minutes.value, seconds.value, frames.value>>,
                <<TIME_PLAYED_ADDR, TIME_PLAYED_ADDR + 1, TIME_PLAYED_ADDR + 2,
                  TIME_PLAYED_ADDR + 3>>,
                hours.diag \o minutes.diag \o seconds.diag \o frames.diag)

get_time_played_call ==
    /\ out = <<>>
    /\ out' = Outcome("get_time_played", get_time_played(ram))
    /\ UNCHANGED <<lvars, pipe, ram, given, sessions>>

\* The reads of m one after the other: the values and the addresses.
ReadAll(m, addrs) ==
    Decoded([i \in 1..Len(addrs) |-> get_memory_value(m, addrs[i])], addrs, <<>>)

\* The record of one slot, lines 351-401, in the order the code reads it.
pokemon_info(m, start_addr) ==
    LET species_id == ReadAll(m, <<start_addr + \h00>>)
        current_hp == read_little_endian(m, start_addr + \h01, 2)
        status == ReadAll(m, <<start_addr + \h04>>)
        type1 == ReadAll(m, <<start_addr + \h05>>)
        type2 == ReadAll(m, <<start_addr + \h06>>)
        level == ReadAll(m, <<start_addr + \h21>>)
        moves == ReadAll(m, <<start_addr + \h08, start_addr + \h09,
                              start_addr + \h0A, start_addr + \h0B>>)
        pp == ReadAll(m, <<start_addr + \h1D, start_addr + \h1E,
                           start_addr + \h1F, start_addr + \h20>>)
        trainer_id == read_little_endian(m, start_addr + \h0C, 2)
        exp == read_little_endian(m, start_addr + \h0E, 3)
        ev_hp == read_little_endian(m, start_addr + \h11, 2)
        ev_attack == read_little_endian(m, start_addr + \h13, 2)
        ev_defense == read_little_endian(m, start_addr + \h15, 2)
        ev_speed == read_little_endian(m, start_addr + \h17, 2)
        ev_special == read_little_endian(m, start_addr + \h19, 2)
        iv_bytes == ReadAll(m, <<start_addr + \h1B, start_addr + \h1C>>)
        max_hp == read_little_endian(m, start_addr + \h22, 2)
        attack == read_little_endian(m, start_addr + \h24, 2)
        defense == read_little_endian(m, start_addr + \h26, 2)
        speed == read_little_endian(m, start_addr + \h28, 2)
        special == read_little_endian(m, start_addr + \h2A, 2)
    IN  Decoded([species_id |-> species_id.value[1],
                 current_hp |-> current_hp.value,
                 status |-> status.value[1],
                 type1 |-> type1.value[1],
                 type2 |-> type2.value[1],
                 level |-> level.value[1],
                 moves |-> moves.value,
                 pp |-> pp.value,
                 trainer_id |-> trainer_id.value,
                 exp |-> exp.value,
                 evs |-> [hp |-> ev_hp.value, attack |-> ev_attack.value,
                          defense |-> ev_defense.value, speed |-> ev_speed.value,
                          special |-> ev_special.value],
                 ivs |-> extract_ivs(iv_bytes.value[1], iv_bytes.value[2]).value,
                 stats |-> [max_hp |-> max_hp.value, attack |-> attack.value,
                            defense |-> defense.value, speed |-> speed.value,
                            special |-> special.value]],
                species_id.reads \o current_hp.reads \o status.reads \o type1.reads
                  \o type2.reads \o level.reads \o moves.reads \o pp.reads
                  \o trainer_id.reads \o exp.reads \o ev_hp.reads \o ev_attack.reads
                  \o ev_defense.reads \o ev_speed.reads \o ev_special.reads
                  \o iv_bytes.reads \o max_hp.reads \o attack.reads \o defense.reads
                  \o speed.reads \o special.reads,
                <<>>)

\* The loop of get_party_pokemon_data over the slots first .. last - 1,
\* lines 350-403: the records and the reads of the slots in slot order
\* (the range is halved to keep the evaluation shallow).
RECURSIVE party_data_loop(_, _, _, _, _)
party_data_loop(m, base_addr, pokemon_struct_size, first, last) ==
    IF first >= last THEN Decoded(<<>>, <<>>, <<>>)
    ELSE IF last = first + 1
    THEN LET pokemon == pokemon_info(m, base_addr + first * pokemon_struct_size)
         IN  Decoded(<<pokemon.value>>, pokemon.reads, <<>>)
    ELSE LET middle == (first + last) \div 2
             head == party_data_loop(m, base_addr, pokemon_struct_size, first, middle)
             rest == party_data_loop(m, base_addr, pokemon_struct_size, middle, last)
         IN  Decoded(head.value \o rest.value, head.reads \o rest.reads, <<>>)

\* get_party_pokemon_data with slots one byte shorter.
get_party_pokemon_data_packed(m) ==
    LET party_count == get_party_count(m)
    IN  IF party_count.value = 0 THEN Decoded(<<>>, party_count.reads, <<>>)
        ELSE LET l == party_data_loop(m, \hD16B, 43, 0, party_count.value)
             IN  Decoded(l.value, party_count.reads \o l.reads, <<>>)

\* get_party_pokemon_data(), lines 332-405.
get_party_pokemon_data(m) ==
    LET party_count == get_party_count(m)
    IN  IF party_count.value = 0 THEN Decoded(<<>>, party_count.reads, <<>>)
        ELSE LET l == party_data_loop(m, \hD16B, 44, 0, party_count.value)
             IN  Decoded(l.value, party_count.reads \o l.reads, <<>>)

get_party_pokemon_data_call ==
    /\ out' = Outcome("get_party_pokemon_data", get_party_pokemon_data(ram)) \o given
    /\ UNCHANGED <<lvars, pipe, ram, given, sessions>>

\* _get_info() that leaves the party out when the count is beyond six.
get_info_fields_guarded(m) ==
    LET basic == [player_x |-> get_player_x(m).value,
                  player_y |-> get_player_y(m).value,
                  map_id |-> get_current_map_id(m).value,
                  party_count |-> get_party_count(m).value,
                  player_money |-> get_player_money(m).value,
                  rival_name |-> get_rival_name(m).value,
                  player_name |-> get_player_name(m).value,
                  badges |-> get_badges(m).value,
                  pokedex_owned |-> get_pokedex_owned_count(m).value,
                  pokedex_seen |-> get_pokedex_seen_count(m).value,
                  time_played |-> get_time_played(m).value]
        party == [party_species |-> get_party_species(m).value,
                  party_data |-> get_party_pokemon_data(m).value]
    IN  Decoded(IF basic.party_count > 6 THEN basic ELSE basic @@ party,
                <<PLAYER_X_ADDR, PLAYER_Y_ADDR, MAP_ID_ADDR, PARTY_COUNT_ADDR>>,
                <<>>)

\* _get_info() of the environment over the memory m: the thirteen getters
\* in the order of the dictionary.
get_info_fields(m) ==
    LET player_x == get_player_x(m)
        player_y == get_player_y(m)
        map_id == get_current_map_id(m)
        party_count == get_party_count(m)
        player_money == get_player_money(m)
        rival_name == get_rival_name(m)
        player_name == get_player_name(m)
        badges == get_badges(m)
        pokedex_owned == get_pokedex_owned_count(m)
        pokedex_seen == get_pokedex_seen_count(m)
        time_played == get_time_played(m)
        party_species == get_party_species(m)
        party_data == get_party_pokemon_data(m)
    IN  Decoded([player_x |-> player_x.value,
                 player_y |-> player_y.value,
                 map_id |-> map_id.value,
                 party_count |-> party_count.value,
                 player_money |-> player_money.value,
                 rival_name |-> rival_name.value,
                 player_name |-> player_name.value,
                 badges |-> badges.value,
                 pokedex_owned |-> pokedex_owned.value,
                 pokedex_seen |-> pokedex_seen.value,
                 time_played |-> time_played.value,
                 party_species |-> party_species.value,
                 party_data |-> party_data.value],
                player_x.reads \o player_y.reads \o map_id.reads \o party_count.reads
                  \o player_money.reads \o rival_name.reads \o player_name.reads
                  \o badges.reads \o pokedex_owned.reads \o pokedex_seen.reads
                  \o time_played.reads \o party_species.reads \o party_data.reads,
                player_money.diag \o time_played.diag \o party_species.diag)

\* A call of _get_info that hands out the snapshot it made first.
get_info_call_cached ==
    /\ out' = (IF out # <<>> /\ out[1].op = "get_info" THEN <<out[1]>>
               ELSE Outcome("get_info", get_info_fields(ram))) \o given
    /\ UNCHANGED <<lvars, pipe, ram, given, sessions>>

\* A call of _get_info on the emulator as it stands; the outcome is kept
\* with the frame count it was taken at.
get_info_call ==
    /\ out' = Outcome("get_info", get_info_fields(ram)) \o given
    /\ UNCHANGED <<lvars, pipe, ram, given, sessions>>

\* Memory contents: the party-count byte is count, and every other byte
\* of the decoded region is (c[1] * address + c[2]) % 256; the
\* species list of each meets a terminator 40 or 50 bytes in.
CountSamples == {0, 2, 6, 7, 255}

Contents == {<<1, 115>>, <<3, 61>>}

Memory(count, c) ==
    [a \in PLAYER_NAME_ADDR ..
            (IF \hD16B + 44 * count > TIME_PLAYED_ADDR + 4
             THEN \hD16B + 44 * count - 1 ELSE TIME_PLAYED_ADDR + 3) |->
       IF a = PARTY_COUNT_ADDR THEN count ELSE (c[1] * a + c[2]) % 256]

Memories == {Memory(count, c) : count \in CountSamples, c \in Contents}

\* pyboy.tick(): the emulator runs one frame, and the game writes what it
\* writes.
tick_memory ==
    /\ given[1] < MaxInfoTicks
    /\ given' = <<given[1] + 1>>
    /\ ram' \in Memories
    /\ UNCHANGED <<lvars, pipe, out, sessions>>

\* -------------------------------------------- core/session_manager.py
\* The ids and agents the caller uses, and what it observes.
SessionIds == {"x", "y"}
Agents == {"a1", "a2"}
ObservationArgs == {0, 1}

\* agent.choose_action(observation): each agent answers in its own way.
choose_action(agent, observed) == [by |-> agent, on |-> observed]

\* The dictionary d with d[key] = value.
SetItem(d, key, value) ==
    [k \in DOMAIN d \cup {key} |-> IF k = key THEN value ELSE d[k]]

\* The steps all histories hold.
Recorded ==
    LET n(id) == IF id \in DOMAIN sessions THEN Len(sessions[id].history) ELSE 0
    IN  n("x") + n("y")

\* create_session(session_id, agent), lines 14-19.
create_session(session_id, agent) ==
    /\ sessions' = SetItem(sessions, session_id,
                           [agent |-> agent, history |-> <<>>, state |-> None])
    /\ ret' = Ret("create_session", session_id, <<agent>>, "none", <<>>, <<>>)
    /\ UNCHANGED mvars

\* step that files the pair at the front of the history.
SessionManager_step_front(session_id, observed) ==
    IF session_id \notin DOMAIN sessions
    THEN /\ ret' = Ret("SessionManager.step", session_id, <<observed>>, "KeyError",
                       <<>>, <<>>)
         /\ UNCHANGED <<sessions, mvars>>
    ELSE LET agent == sessions[session_id].agent
             action == choose_action(agent, observed)
         IN  /\ Recorded < MaxHistory
             /\ sessions' = [sessions EXCEPT ![session_id].history =
                                <<<<observed, action>>>> \o @]
             /\ ret' = Ret("SessionManager.step", session_id, <<observed>>, "none",
                           <<>>, <<action>>)
             /\ UNCHANGED mvars

\* step(session_id, observation), lines 21-25.
SessionManager_step(session_id, observed) ==
    IF session_id \notin DOMAIN sessions
    THEN /\ ret' = Ret("SessionManager.step", session_id, <<observed>>, "KeyError",
                       <<>>, <<>>)
         /\ UNCHANGED <<sessions, mvars>>
    ELSE LET agent == sessions[session_id].agent
             action == choose_action(agent, observed)
         IN  /\ Recorded < MaxHistory
             /\ sessions' = [sessions EXCEPT ![session_id].history =
                                Append(@, <<observed, action>>)]
             /\ ret' = Ret("SessionManager.step", session_id, <<observed>>, "none",
                           <<>>, <<action>>)
             /\ UNCHANGED mvars

\* switch_agent(session_id, new_agent), lines 27-28.
switch_agent(session_id, new_agent) ==
    IF session_id \notin DOMAIN sessions
    THEN /\ ret' = Ret("switch_agent", session_id, <<new_agent>>, "KeyError", <<>>, <<>>)
         /\ UNCHANGED <<sessions, mvars>>
    ELSE /\ sessions' = [sessions EXCEPT ![session_id].agent = new_agent]
         /\ ret' = Ret("switch_agent", session_id, <<new_agent>>, "none", <<>>, <<>>)
         /\ UNCHANGED mvars

\* get_history(session_id), lines 30-31.
get_history(session_id) ==
    /\ ret' = IF session_id \notin DOMAIN sessions
              THEN Ret("get_history", session_id, <<>>, "KeyError", <<>>, <<>>)
              ELSE Ret("get_history", session_id, <<>>, "none", <<>>,
                       <<sessions[session_id].history>>)
    /\ UNCHANGED <<sessions, mvars>>

\* Nothing constructed yet.
Fresh ==
    /\ all_actions = ALL_ACTIONS
    /\ sess = [s \in Sessions |-> NoSession]
    /\ emu = [e \in EmuIds |-> FreeEmu]
    /\ created = 0
    /\ files = [p \in Paths |-> <<>>]
    /\ ret = Ret("init", "-", <<>>, "none", <<>>, <<>>)
    /\ sessions = <<>>

\* No wrapper built, no decoder under study.
Unwrapped == pipe = [s \in Sessions |-> NoPipe]
Undecoded == ram = <<>> /\ given = <<>> /\ out = <<>>

Init == Fresh /\ Unwrapped /\ Undecoded

\* The observation spaces DropAlpha may be put over, and for each the
\* observations of that space the model tells apart.
SpaceArgs ==
    {<<>>, <<84, 84>>, <<84, 84, 1>>, <<84, 84, 3>>, <<1, 1, 4>>, <<84, 84, 4>>,
     <<144, 160, 4>>, <<4, 84, 84, 4>>, <<4, 84, 84, 1>>}
ObservationsOf(space) ==
    IF space = <<>> THEN {Tensor(<<>>, <<>>, <<>>)}
    ELSE IF PyLast(space) = 4
    THEN {Tensor(space, [i \in 1..4 |-> <<"plane", f[i]>>], <<<<1, 0>>>>) :
             f \in [1..4 -> Images]}
    ELSE {ZeroObservation(space)}

InitDropAlpha ==
    /\ Fresh /\ Unwrapped
    /\ ram = <<>> /\ out = <<>>
    /\ \E space \in SpaceArgs : \E obs \in ObservationsOf(space) :
          given = [space |-> space, obs |-> obs]

\* No session, no wrapper, no call made yet.
Idle == Fresh /\ Unwrapped /\ out = <<>>

InitBcd ==
    /\ Idle
    /\ ram = <<>>
    /\ \E v \in Bytes : given = <<v>>

\* Bytes that are BCD, bytes with one bad nibble, bytes with two.
BcdSamples == {\h00, \h09, \h10, \h12, \h34, \h56, \h99, \h0A, \hA0, \h9F, \hFF}

InitMoney ==
    /\ Idle
    /\ given = <<>>
    /\ ram \in [MONEY_ADDR .. MONEY_ADDR + 2 -> BcdSamples]

\* The widths _read_little_endian is asked for, and bytes that show the
\* weight of each position.
Widths == 1 .. 3
WordSamples == {\h00, \h01, \h2C, \hFF}

InitLittleEndian ==
    /\ Idle
    /\ \E w \in Widths : given = <<POKEDEX_OWNED_ADDR, w>>
    /\ ram \in [(POKEDEX_OWNED_ADDR .. POKEDEX_OWNED_ADDR + 2)
                  \cup (POKEDEX_SEEN_ADDR .. POKEDEX_SEEN_ADDR + 1) -> WordSamples]

InitIvs ==
    /\ Idle
    /\ ram = <<>>
    /\ \E iv_byte1 \in Bytes, iv_byte2 \in Bytes : given = <<iv_byte1, iv_byte2>>

\* Name bytes: the terminator, a letter, a byte the table does not have.
NameSamples == {\h50, \h81, \h00}
\* Eight bytes from each name address on, the player's being the rival's in
\* reverse order.
InitNames ==
    /\ Idle
    /\ given = <<>>
    /\ \E c \in [0 .. 7 -> NameSamples] :
          ram = [a \in (RIVAL_NAME_ADDR .. RIVAL_NAME_ADDR + 7)
                       \cup (PLAYER_NAME_ADDR .. PLAYER_NAME_ADDR + 7) |->
                   IF a >= RIVAL_NAME_ADDR THEN c[a - RIVAL_NAME_ADDR]
                   ELSE c[7 - (a - PLAYER_NAME_ADDR)]]

\* Species bytes: the terminator and two species ids.
SpeciesSamples == {\hFF, \h99, \hB3}
\* A party count and the bytes of the species list it can reach.
InitParty ==
    /\ Idle
    /\ given = <<>>
    /\ \E n \in 0 .. MaxPartyCount :
       \E c \in [PARTY_SPECIES_LIST_ADDR .. PARTY_SPECIES_LIST_ADDR + MaxPartyCount
                   -> SpeciesSamples] :
          ram = [a \in {PARTY_COUNT_ADDR} \cup DOMAIN c |->
                   IF a = PARTY_COUNT_ADDR THEN n ELSE c[a]]

\* An emulator that has run no frame yet, over any of the memories.
InitInfo ==
    /\ Idle
    /\ given = <<0>>
    /\ ram \in Memories

\* Byte lists for the text decoder: every single byte, and every list of
\* the sample bytes up to MaxText long.
TextSamples == {\h50, \h7F, \h80, \hB9, \hF6, \h00}

RECURSIVE Lists(_, _)
Lists(S, n) ==
    IF n = 0 THEN {<<>>}
    ELSE Lists(S, n - 1) \cup {Append(l, b) : l \in {k \in Lists(S, n - 1) : Len(k) = n - 1}, b \in S}

InitText ==
    /\ Idle
    /\ ram = <<>>
    /\ \E byte_list \in {<<b>> : b \in Bytes} \cup Lists(TextSamples, MaxText) :
          given = <<byte_list>>

\* The four bytes of the play time: valid and invalid BCD, and valid BCD
\* beyond 59.
TimeSamples == {\h00, \h59, \h60, \h99, \h0A, \hF0}

InitTime ==
    /\ Idle
    /\ given = <<>>
    /\ ram \in [TIME_PLAYED_ADDR .. TIME_PLAYED_ADDR + 3 -> TimeSamples]

\* ------------------------------------------------------- the state machine
\* A few indices for the scenarios that are not about the index: a key, the
\* wait action, and one index beyond the list.
SomeIndexArgs == {0, Len(ALL_ACTIONS) - 1, Len(ALL_ACTIONS)}

\* The whole lifecycle of one session.
Next ==
    \/ \E s \in One, str \in BOOLEAN, rom \in RomStates :
          PokemonRedGameWrapper(s, str, TRUE, rom) /\ UNCHANGED xvars
    \/ \E s \in One, rm \in RenderModeArgs, rom \in RomStates :
          PokemonRedEnv(s, rm, rom) /\ UNCHANGED xvars
    \/ \E s \in One, mode \in ModeArgs, rom \in RomStates :
          make_pokemon_red_env(s, mode, rom) /\ UNCHANGED xvars
    \/ \E s \in One, rom \in RomStates : reset(s, rom) /\ UNCHANGED xvars
    \/ \E s \in One, i \in SomeIndexArgs : step(s, i, <<>>) /\ UNCHANGED xvars
    \/ \E s \in One : render(s) /\ UNCHANGED xvars
    \/ \E s \in One, path \in Paths : save_state(s, path) /\ UNCHANGED xvars
    \/ \E s \in One, path \in Paths : load_state(s, path) /\ UNCHANGED xvars
    \/ \E s \in One : close(s) /\ UNCHANGED xvars

Spec == Init /\ [][Next]_vars

\* Stepping: every index and both forms of wait_frames, on a bare env.
NextStep ==
    \/ \E s \in One, rm \in RenderModeArgs, rom \in RomStates :
          PokemonRedEnv(s, rm, rom) /\ UNCHANGED xvars
    \/ \E s \in One, rom \in RomStates : reset(s, rom) /\ UNCHANGED xvars
    \/ \E s \in One, i \in ActionIndexArgs, wf \in WaitFrameArgs : step(s, i, wf) /\ UNCHANGED xvars
    \/ \E s \in One : render(s) /\ UNCHANGED xvars
    \/ \E s \in One : close(s) /\ UNCHANGED xvars

SpecStep == Init /\ [][NextStep]_vars

\* Two sessions side by side, each with its own history.
NextPair ==
    \/ \E s \in Sessions : PokemonRedEnv(s, None, "valid") /\ UNCHANGED xvars
    \/ \E s \in Sessions : reset(s, "valid") /\ UNCHANGED xvars
    \/ \E s \in Sessions, i \in 0 .. Len(ALL_ACTIONS) - 1, wf \in WaitFrameArgs :
          step(s, i, wf) /\ UNCHANGED xvars

SpecPair == Init /\ [][NextPair]_vars

\* The wrapped env: construction in every mode, then resets and steps.
NextPipe ==
    \/ \E s \in One, mode \in ModeArgs, shape \in ShapeArgs, k \in StackArgs :
          make_wrapped_env(s, mode, shape, k, "valid")
    \/ \E s \in One, rom \in {"valid", "missing"} : wrapped_reset(s, rom)
    \/ \E s \in One, i \in SomeIndexArgs : wrapped_step(s, i)

SpecPipe == Init /\ [][NextPipe]_vars

\* DropAlpha on its own: construction over some space, then one observation.
NextDropAlpha ==
    \/ DropAlpha
    \/ DropAlpha_call

SpecDropAlpha == InitDropAlpha /\ [][NextDropAlpha]_vars

\* _decode_bcd on every byte.
NextBcd == decode_bcd_call

SpecBcd == InitBcd /\ [][NextBcd]_vars

\* get_player_money over the three money bytes.
NextMoney == get_player_money_call

SpecMoney == InitMoney /\ [][NextMoney]_vars

\* The little-endian readers over the Pokedex counters.
NextLittleEndian ==
    \/ read_little_endian_call
    \/ get_pokedex_owned_count_call
    \/ get_pokedex_seen_count_call

SpecLittleEndian == InitLittleEndian /\ [][NextLittleEndian]_vars

\* _extract_ivs on every pair of bytes.
NextIvs == extract_ivs_call

SpecIvs == InitIvs /\ [][NextIvs]_vars

\* The two name readers.
NextNames ==
    \/ get_rival_name_call
    \/ get_player_name_call

SpecNames == InitNames /\ [][NextNames]_vars

\* get_party_species over a party count and a species list.
NextParty == get_party_species_call

SpecParty == InitParty /\ [][NextParty]_vars

NextInfo ==
    \/ get_info_call
    \/ get_party_pokemon_data_call
    \/ tick_memory

SpecInfo == InitInfo /\ [][NextInfo]_vars

\* The session manager, constructed empty (lines 11-12).
NextSession ==
    \/ \E id \in SessionIds, agent \in Agents : create_session(id, agent)
    \/ \E id \in SessionIds, o \in ObservationArgs : SessionManager_step(id, o)
    \/ \E id \in SessionIds, agent \in Agents : switch_agent(id, agent)
    \/ \E id \in SessionIds : get_history(id)

SpecSession == Init /\ [][NextSession]_vars

NextText == decode_text_call

SpecText == InitText /\ [][NextText]_vars

NextTime == get_time_played_call

SpecTime == InitTime /\ [][NextTime]_vars

\* ------------------------------------------------------------ the claims
\* What the last call was.
IsStep == ret.op = "step"
Returned == ret.error = "none"
\* The instance session s holds.
Held(s) == emu[sess[s].pyboy]
HasObject(s) == sess[s].kind # "none"
\* The frame count a step call asked for: 8 when wait_frames was omitted.
AskedFrames(r) == IF Len(r.args) = 1 THEN 8 ELSE r.args[2]
\* The keys as the claims list them.
ClaimedKeys == <<"A", "B", "UP", "DOWN", "LEFT", "RIGHT", "START", "SELECT">>

\* C1: a step whose index is outside 0..8 (9 and above, or any negative
\* value) ends in a bounds error and sends the emulator no press and no tick.
C1_OutOfRangeIsBoundsError ==
    (IsStep /\ (ret.args[1] < 0 \/ ret.args[1] >= 9))
        => (ret.error = "IndexError" /\ ret.calls = <<>>)

\* C2: make_pokemon_red_env with a mode other than rl, llm, human raises, and
\* has created no emulator instance when it does.
C2_UnknownModeAllocatesNothing ==
    (ret.op = "make_pokemon_red_env" /\ ret.args[1] \notin {"rl", "llm", "human"})
        => (ret.error # "none" /\ ret.calls = <<>>)

\* C3: construct and reset are never partial: a call that returned left the
\* session a freshly started running instance; a construct that raised left
\* no session, and a reset that raised (on a session never closed) did not
\* leave the session holding a stopped instance.
C3_ResetNeverPartial ==
    \A s \in Sessions :
        (ret.s = s /\ ret.op \in {"reset", "PokemonRedGameWrapper", "PokemonRedEnv",
                                  "make_pokemon_red_env"})
        => IF Returned
           THEN HasObject(s) /\ Held(s) = PowerOn
           ELSE /\ ret.value = <<>>
                /\ ret.op # "reset" => ~HasObject(s)
                /\ (ret.op = "reset" /\ ~sess[s].closed) => Held(s).state # "stopped"

\* C4: a save_state or load_state whose path cannot be opened raises, makes no
\* call to the emulator, and leaves the session, every instance (state, memory,
\* frame count) and the files as they were.
C4_FailedOpenLeavesEmulator ==
    [][\A path \in Paths :
          (\/ ret'.op = "save_state" /\ ret'.args = <<path>> /\ path # "state.sav"
           \/ ret'.op = "load_state" /\ ret'.args = <<path>> /\ files[path] = <<>>)
          => /\ ret'.error = "OSError"
             /\ ret'.calls = <<>>
             /\ sess' = sess /\ emu' = emu /\ created' = created /\ files' = files]_vars

\* C4 witness: a failed save or load on a session whose running instance has
\* executed frames and holds a memory image other than the power-on one.
C4_Witness ==
    /\ ret.op \in {"save_state", "load_state"} /\ ret.error = "OSError"
    /\ Held(ret.s).state = "live" /\ Held(ret.s).ticks > 0 /\ Held(ret.s).mem # 0

\* C5: after any sequence of construct, step, render and reset a session owns
\* one running instance; a reset stopped the previous instance before starting
\* the new one, which is another instance in power-on state; and the calls of
\* a step or render go to the instance the session holds now.
C5_OneLiveInstance ==
    \A s \in Sessions :
        (HasObject(s) /\ ~sess[s].closed)
        => /\ Held(s).state = "live"
           /\ (ret.s = s /\ ret.op = "reset")
                 => /\ Held(s) = PowerOn
                    /\ Len(ret.calls) = 2
                    /\ ret.calls[1].name = "stop" /\ ret.calls[2].name = "PyBoy"
                    /\ ret.calls[1].e # ret.calls[2].e
                    /\ ret.calls[2].e = sess[s].pyboy
                    /\ emu[ret.calls[1].e].state = "stopped"
           /\ (ret.s = s /\ ret.op \in {"step", "render"})
                 => Targets(ret.calls) \subseteq {sess[s].pyboy}

\* C6: Closed is terminal: once close was called on a session, the session
\* never holds a running instance again.
C6_ClosedIsTerminal ==
    \A s \in Sessions : sess[s].closed => Held(s).state # "live"

\* C7: the action list has 9 entries, the 8 keys in the order A, B, UP, DOWN,
\* LEFT, RIGHT, START, SELECT as key presses and then the one wait action
\* without a key; the action-space size of every env is 9; no operation
\* changes the list.
C7_ActionTableFixed ==
    /\ Len(all_actions) = 9
    /\ \A i \in 1..8 : all_actions[i] = [type |-> "tap", key |-> ClaimedKeys[i]]
    /\ all_actions[9] = [type |-> "wait", key |-> None]
    /\ \A i, j \in 1..9 : all_actions[i] = all_actions[j] => i = j
    /\ \A s \in Sessions : sess[s].kind = "env" => sess[s].n = 9

\* C7 witness: construct, reset, step and close have all acted.
C7_Witness ==
    /\ ret.op = "close" /\ created >= 2
    /\ Held(ret.s).ticks > 0

\* C8: a step with a valid index sends exactly: for a key, one press of the
\* mapped key and then one tick of wait_frames; for the wait action, one tick
\* of wait_frames; wait_frames is 8 when omitted; a running instance executes
\* exactly that many frames.
C8_StepInputSequence ==
    [][(ret'.op = "step" /\ ret'.error = "none" /\ ret'.args[1] \in 0..8)
        => LET i == ret'.args[1]
               w == AskedFrames(ret')
               e == sess[ret'.s].pyboy
           IN  /\ Inputs(ret'.calls) =
                     IF i <= 7 THEN << <<"button", ClaimedKeys[i + 1]>>, <<"tick", w>> >>
                     ELSE << <<"tick", w>> >>
               /\ Targets(ret'.calls) = {e}
               /\ emu[e].state = "live" => emu'[e].ticks = emu[e].ticks + w
               /\ \A x \in EmuIds \ {e} : emu'[x] = emu[x]]_vars

\* C8 witness: a key step with an explicit wait_frames on an instance that
\* had already run frames.
C8_Witness ==
    /\ IsStep /\ Returned /\ ret.args[1] \in 0..7 /\ Len(ret.args) = 2
    /\ Held(ret.s).state = "live" /\ Held(ret.s).ticks > ret.args[2]

\* C9: the inputs a step sends depend on (index, wait_frames) alone: a step
\* that follows a step with the same index and frame count, on the same
\* session or on another one, sends the same presses and ticks.
C9_SameInputsForSameStep ==
    [][(/\ ret.op = "step" /\ ret.error = "none"
        /\ ret'.op = "step" /\ ret'.error = "none"
        /\ ret'.args[1] = ret.args[1] /\ AskedFrames(ret') = AskedFrames(ret))
        => Inputs(ret'.calls) = Inputs(ret.calls)]_vars

\* C9 witness: a step on one session while the other session, with another
\* history (it was reset, and its instance ran other frames), is also running.
C9_Witness ==
    /\ IsStep /\ Returned /\ created >= 3
    /\ \A s \in Sessions : HasObject(s) /\ Held(s).state = "live"
    /\ Held("s1").ticks # Held("s2").ticks
    /\ sess["s1"].pyboy < sess["s2"].pyboy /\ ret.s = "s1"

\* C10: every step that returns yields (observation, reward, terminated,
\* truncated, info) with reward 0 and terminated and truncated false.
C10_NeutralDefaults ==
    (IsStep /\ Returned)
        => /\ Len(ret.value) = 5
           /\ ret.value[2] = 0
           /\ ret.value[3] = FALSE
           /\ ret.value[4] = FALSE

\* C10 witness: a step returned on an instance whose memory is not the
\* power-on image, after an earlier reset.
C10_Witness ==
    /\ IsStep /\ Returned /\ created >= 2
    /\ Held(ret.s).mem # 0 /\ Held(ret.s).ticks >= 8

\* ------------------------------------------------ the observation pipeline
\* The wrapped session s is in mode `mode` and its last call returned an
\* observation.
Observed(s, mode) ==
    /\ sess[s].kind = "env" /\ sess[s].mode = mode
    /\ ret.s = s /\ ret.op \in {"reset", "step"} /\ ret.error = "none"
    /\ pipe[s].obs # <<>>
\* The frames of a stacked observation that are the all-zero padding of a
\* stack no reset has filled yet.
Padding(o) == {i \in 1..Len(o.src) : o.src[i][1] = 0}

\* C11: in the 'rl' pipeline with stack size K, the observation a reset
\* returns is K copies of the transformed first frame of the new episode,
\* and neither it nor any observation after it holds a frame drawn before
\* that reset: every frame of a returned observation was drawn by the
\* instance the session holds now, or is padding, and once an observation is
\* free of padding the next one is too.
C11_ResetRefillsStack ==
    /\ [](\A s \in Sessions : Observed(s, "rl") =>
            LET o == pipe[s].obs[1]
                e == sess[s].pyboy
            IN  /\ Len(o.src) = pipe[s].stack_size
                /\ \A i \in 1..Len(o.src) : o.src[i][1] \in {0, e}
                /\ ret.op = "reset" =>
                     \A i \in 1..Len(o.src) :
                        /\ o.src[i] = <<e, 0>>
                        /\ emu[e].ticks = 0
                        /\ o.chan[i] = <<<<"Y", emu[e].mem>>>>)
    /\ [][\A s \in Sessions :
            (Observed(s, "rl") /\ Padding(pipe[s].obs[1]) = {} /\ pipe'[s].obs # <<>>)
            => Padding(pipe'[s].obs[1]) = {}]_vars
\* A reset of an 'rl' session that had been reset before returned.
C11_Witness ==
    \E s \in Sessions :
        /\ Observed(s, "rl") /\ ret.op = "reset"
        /\ sess[s].pyboy > 2
        /\ pipe[s].stack_size = DefaultNumStack

\* C12: in the 'rl' pipeline the buffer holds K frames in every state, oldest
\* first; a step that returns drops the oldest frame and appends the frame
\* it drew, and returns the buffer.
C12_StackShifts ==
    /\ [](\A s \in Sessions : sess[s].kind = "env" /\ sess[s].mode = "rl" =>
            LET q == pipe[s].obs_queue
            IN  /\ Len(q) = pipe[s].stack_size
                /\ \A i, j \in 1..Len(q) : i < j =>
                      /\ q[i].src[1][1] <= q[j].src[1][1]
                      /\ q[i].src[1][1] = q[j].src[1][1]
                           => q[i].src[1][2] <= q[j].src[1][2]
                /\ Observed(s, "rl") =>
                      pipe[s].obs[1].src = [i \in 1..Len(q) |-> q[i].src[1]])
    /\ [][\A s \in Sessions :
            (sess[s].mode = "rl" /\ ret'.s = s /\ ret'.op = "step" /\ ret'.error = "none")
            => LET q == pipe[s].obs_queue
                   e == sess[s].pyboy
               IN  /\ Len(pipe'[s].obs_queue) = Len(q)
                   /\ \A i \in 1..(Len(q) - 1) :
                         pipe'[s].obs_queue[i] = q[i + 1]
                   /\ pipe'[s].obs_queue[Len(q)].src = <<<<e, emu'[e].ticks>>>>
                   /\ pipe'[s].obs_queue[Len(q)].chan = <<<<"Y", emu'[e].mem>>>>]_vars
\* More steps than the stack is deep since the last reset: the returned
\* observation holds step frames only, no two the same.
C12_Witness ==
    \E s \in Sessions :
        /\ Observed(s, "rl") /\ ret.op = "step"
        /\ sess[s].pyboy > 1
        /\ LET o == pipe[s].obs[1]
           IN  /\ \A i \in 1..Len(o.src) : o.src[i][1] = sess[s].pyboy /\ o.src[i][2] > 0
               /\ \A i, j \in 1..Len(o.src) : i # j => o.src[i] # o.src[j]

\* C13: the observation reset and step return has the shape the outermost
\* wrapper declares: (num_stack, H, W, 1) in 'rl', (H, W, 3) in 'llm' and
\* (144, 160, 3) in 'human', with H = W = 84 and num_stack = 4 when the
\* caller leaves them out.
ExpectedShape(mode, hw, k) ==
    IF mode = "rl" THEN <<k>> \o hw \o <<1>>
    ELSE IF mode = "llm" THEN hw \o <<3>>
    ELSE <<144, 160, 3>>
C13_DeclaredShape ==
    \A s \in Sessions, mode \in {"rl", "llm", "human"} : Observed(s, mode) =>
        /\ pipe[s].obs[1].shape = pipe[s].space
        /\ pipe[s].space = ExpectedShape(mode, pipe[s].shape, pipe[s].stack_size)
        /\ (ret.op = "step" /\ pipe[s].shape = DefaultShape
              /\ pipe[s].stack_size = DefaultNumStack /\ mode = "rl")
           => pipe[s].obs[1].shape = <<4, 84, 84, 1>>
C13_Witness ==
    \E s \in Sessions :
        /\ Observed(s, "rl") /\ ret.op = "step"
        /\ pipe[s].obs[1].shape = <<4, 84, 84, 1>>

\* C14: DropAlpha over a space that is not 3-dimensional with a last
\* dimension of 4 raises ValueError at construction; over (H, W, 4) it is
\* built, its space is (H, W, 3), and each observation is the input's
\* channels 0..2, unchanged, with channel 3 gone.
C14_DropAlpha ==
    out # <<>> =>
        LET sp == given.space
            rgba == Len(sp) = 3 /\ sp[3] = 4
        IN  /\ ~rgba => out[1].error = "ValueError" /\ out[1].op = "DropAlpha"
            /\ rgba =>
                 /\ out[1].error = "none"
                 /\ out[1].space = <<sp[1], sp[2], 3>>
                 /\ out[1].op = "observation" =>
                      LET o == out[1].obs[1]
                      IN  /\ o.shape = <<sp[1], sp[2], 3>>
                          /\ Len(o.chan) = 3
                          /\ \A i \in 1..3 : o.chan[i] = given.obs.chan[i]
\* An RGBA observation whose alpha plane differs from its colour planes went
\* through a DropAlpha that was built.
C14_Witness ==
    /\ out # <<>> /\ out[1].op = "observation"
    /\ given.obs.chan[4] # given.obs.chan[3]
    /\ given.space = <<84, 84, 4>>

\* ---------------------------------------------------------- the decoders
Called(op) == out # <<>> /\ out[1].op = op

\* C15: for every byte v with high nibble h and low nibble l, decode_bcd(v)
\* is h*10 + l when h <= 9 and l <= 9, and otherwise 0 with a diagnostic
\* logged; the result is always in 0..99.
C15_DecodeBcd ==
    Called("decode_bcd") =>
        LET v == given[1]
            h == v \div 16
            l == v % 16
        IN  /\ (h <= 9 /\ l <= 9) => out[1].value = h * 10 + l /\ out[1].diag = <<>>
            /\ ~(h <= 9 /\ l <= 9) => out[1].value = 0 /\ out[1].diag # <<>>
            /\ out[1].value \in 0 .. 99
\* A byte with one valid and one invalid nibble was decoded.
C15_Witness ==
    /\ Called("decode_bcd")
    /\ given[1] \div 16 <= 9 /\ given[1] % 16 > 9
    /\ out[1].value = 0 /\ out[1].diag = <<given[1]>>

\* The two decimal digits of a BCD byte, 0 when a nibble is above 9.
BcdValue(v) == IF v \div 16 <= 9 /\ v % 16 <= 9 THEN (v \div 16) * 10 + (v % 16) ELSE 0

\* C16: get_player_money is bcd(b0)*10000 + bcd(b1)*100 + bcd(b2) for the
\* bytes at 0xD347..0xD349, each byte decoded on its own, an invalid byte
\* counting as 0; the result is in 0..999999.
C16_PlayerMoney ==
    Called("get_player_money") =>
        /\ out[1].value = BcdValue(ram[54087]) * 10000 + BcdValue(ram[54088]) * 100
                            + BcdValue(ram[54089])
        /\ out[1].value \in 0 .. 999999
        /\ out[1].reads = <<54087, 54088, 54089>>
\* Money read with an invalid byte between two valid ones.
C16_Witness ==
    /\ Called("get_player_money")
    /\ ram[54087] = 18 /\ ram[54088] = 160 /\ ram[54089] = 86
    /\ out[1].value = 120056

\* b_0 + b_1*256 + ... for the w bytes of ram from address a on.
RECURSIVE WeightedSum(_, _)
WeightedSum(a, w) == IF w = 0 THEN 0 ELSE ram[a] + 256 * WeightedSum(a + 1, w - 1)

\* C17: for a width w in 1..3 the little-endian read is the sum of
\* b_i * 256^i over the w bytes and is below 256^w; for two bytes it is
\* b0 + b1*256, and the Pokedex owned and seen counts are that value for
\* their two bytes.
C17_LittleEndian ==
    /\ Called("read_little_endian") =>
          /\ out[1].value = WeightedSum(given[1], given[2])
          /\ out[1].value < 256 ^ given[2]
          /\ given[2] = 2 => out[1].value = ram[given[1]] + ram[given[1] + 1] * 256
    /\ Called("get_pokedex_owned_count") =>
          /\ out[1].value = ram[54007] + ram[54008] * 256
          /\ out[1].value = read_little_endian(ram, 54007, 2).value
    /\ Called("get_pokedex_seen_count") =>
          /\ out[1].value = ram[54026] + ram[54027] * 256
          /\ out[1].value = read_little_endian(ram, 54026, 2).value
\* Three bytes, all different, read as one number.
C17_Witness ==
    /\ Called("read_little_endian") /\ given[2] = 3
    /\ ram[given[1]] = 44 /\ ram[given[1] + 1] = 1 /\ ram[given[1] + 2] = 255
    /\ out[1].value = 44 + 256 + 255 * 65536

\* C18: extract_ivs takes attack from the high and defense from the low
\* nibble of the first byte, speed from the high and special from the low
\* nibble of the second; all five values are in 0..15 and hp is the lowest
\* bits of attack, defense, speed and special, in that order from bit 3 down.
C18_ExtractIvs ==
    Called("extract_ivs") =>
        LET v == out[1].value
        IN  /\ v.attack = given[1] \div 16
            /\ v.defense = given[1] % 16
            /\ v.speed = given[2] \div 16
            /\ v.special = given[2] % 16
            /\ \A k \in {v.hp, v.attack, v.defense, v.speed, v.special} : k \in 0 .. 15
            /\ v.hp = 8 * (v.attack % 2) + 4 * (v.defense % 2)
                        + 2 * (v.speed % 2) + (v.special % 2)
\* IV bytes 0xE7 and 0x4B: attack 14, defense 7, speed 4, special 11, hp 5.
C18_Witness ==
    /\ Called("extract_ivs")
    /\ given = <<231, 75>>
    /\ out[1].value = [hp |-> 5, attack |-> 14, defense |-> 7, speed |-> 4, special |-> 11]

\* How many of the 7 bytes from base on come before the first 0x50.
NameLength(base) ==
    IF \E i \in 0 .. 6 : ram[base + i] = 80
    THEN CHOOSE i \in 0 .. 6 :
            ram[base + i] = 80 /\ \A j \in 0 .. (i - 1) : ram[base + j] # 80
    ELSE 7
\* What C19 says of a name read from base.
NameReadFrom(base) ==
    LET k == NameLength(base)
    IN  /\ out[1].value = decode_text([i \in 1..k |-> ram[base + i - 1]])
        /\ Len(out[1].value) = k /\ k <= 7
        /\ out[1].reads = [i \in 1..(IF k < 7 THEN k + 1 ELSE 7) |-> base + i - 1]
        /\ \A i \in 1..Len(out[1].reads) : out[1].reads[i] <= base + 6

\* C19: get_player_name and get_rival_name read base, base+1, ... in that
\* order, at most up to base+6, stop at the first 0x50 and return the
\* decoding of the bytes before it (of all 7 when there is none); no byte at
\* base+7 or beyond is read and the name has at most 7 characters.
C19_NameReaders ==
    /\ Called("get_rival_name") => NameReadFrom(54090)
    /\ Called("get_player_name") => NameReadFrom(53592)
\* Seven bytes without terminator, then a terminator in the eighth: the
\* name has seven characters and the eighth byte was not read.
C19_Witness ==
    /\ Called("get_rival_name")
    /\ \A i \in 0 .. 6 : ram[54090 + i] # 80
    /\ ram[54090 + 7] = 80
    /\ Len(out[1].value) = 7 /\ Len(out[1].reads) = 7

\* How many of the first n bytes of the species list come before the first
\* 0xFF among them.
SpeciesPrefix(n) ==
    IF \E i \in 0 .. (n - 1) : ram[53604 + i] = 255
    THEN CHOOSE i \in 0 .. (n - 1) :
            ram[53604 + i] = 255 /\ \A j \in 0 .. (i - 1) : ram[53604 + j] # 255
    ELSE n

\* C20: get_party_species returns the longest 0xFF-free prefix of the
\* party_count bytes from 0xD164: the empty list for a count of 0, all the
\* ids when none is 0xFF, the ids before the first 0xFF otherwise; the
\* result holds no 0xFF and is no longer than party_count.
C20_PartySpecies ==
    Called("get_party_species") =>
        LET n == ram[53603]
            k == SpeciesPrefix(n)
        IN  /\ out[1].value = [i \in 1..k |-> ram[53604 + i - 1]]
            /\ n = 0 => out[1].value = <<>>
            /\ \A i \in 1..Len(out[1].value) : out[1].value[i] # 255
            /\ Len(out[1].value) <= n
\* A count of 4 over a list whose third entry is the terminator.
C20_Witness ==
    /\ Called("get_party_species")
    /\ ram[53603] = 4
    /\ ram[53604] = 153 /\ ram[53605] = 179 /\ ram[53606] = 255 /\ ram[53607] = 153
    /\ out[1].value = <<153, 179>>


\* ---------------------------------------------------------- the snapshot

\* The snapshot taken last, if one was.
Info == out[1].value

\* C21: in every decoded snapshot the party count is within 0..6, and
\* party_species and party_data have at most six entries each.
C21_PartyWithinSix ==
    Called("get_info") =>
        /\ Info.party_count \in 0 .. 6
        /\ Len(Info.party_species) <= 6
        /\ Len(Info.party_data) <= 6

\* The outcome kept is of a call made on the memory as it is now.
Current(op) == Called(op) /\ out[2] = given[1]

\* The first byte of slot i (from 1) of the party data.
SlotStart(i) == \hD16B + 44 * (i - 1)

\* The memory with every byte outside slot i cleared.
OnlySlot(i) ==
    [a \in DOMAIN ram |-> IF a \in SlotStart(i) .. SlotStart(i) + 43 THEN ram[a] ELSE 0]

\* The part of the reads made for slot i, the first read being the count.
SlotReads(reads, i) ==
    LET per == (Len(reads) - 1) \div ram[PARTY_COUNT_ADDR]
    IN  SubSeq(reads, 2 + per * (i - 1), 1 + per * i)

\* C22: get_party_pokemon_data returns exactly party_count records in slot
\* order; record i is decoded from the 44 bytes of slot i alone, at the
\* offsets of the layout, and the slots do not overlap; a party of none
\* gives the empty list after reading the count byte only.
C22_PartyData ==
    Current("get_party_pokemon_data") =>
        LET n == ram[PARTY_COUNT_ADDR]
            data == out[1].value
            reads == out[1].reads
        IN  /\ Len(data) = n
            /\ reads[1] = PARTY_COUNT_ADDR
            /\ n = 0 => data = <<>> /\ reads = <<PARTY_COUNT_ADDR>>
            /\ n > 0 => Len(reads) > 1 /\ (Len(reads) - 1) % n = 0
            /\ \A i \in 1 .. n :
                 LET s == SlotStart(i)
                 IN  /\ data[i].species_id = ram[s]
                     /\ data[i].current_hp = ram[s + 1] + 256 * ram[s + 2]
                     /\ data[i].exp = ram[s + 14] + 256 * ram[s + 15] + 65536 * ram[s + 16]
                     /\ data[i].ivs = extract_ivs(ram[s + 27], ram[s + 28]).value
                     /\ data[i].level = ram[s + 33]
                     /\ data[i].stats = [max_hp |-> ram[s + 34] + 256 * ram[s + 35],
                                         attack |-> ram[s + 36] + 256 * ram[s + 37],
                                         defense |-> ram[s + 38] + 256 * ram[s + 39],
                                         speed |-> ram[s + 40] + 256 * ram[s + 41],
                                         special |-> ram[s + 42] + 256 * ram[s + 43]]
                     /\ data[i] = pokemon_info(OnlySlot(i), s).value
                     /\ \A k \in DOMAIN SlotReads(reads, i) :
                          SlotReads(reads, i)[k] \in s .. s + 43
                     /\ i < n => s + 43 < SlotStart(i + 1)

C22_Witness ==
    /\ Current("get_party_pokemon_data")
    /\ ram[PARTY_COUNT_ADDR] = 2
    /\ Len(out[1].value) = 2
    /\ out[1].value[1] # out[1].value[2]
    /\ out[1].value[2].level = ram[SlotStart(2) + 33]


\* C23: constructing the wrapper on a path with no file raises the
\* missing-file error and on a file with another SHA-256 the value error,
\* both before any emulator instance is created; the handle of a failed
\* construction holds no object, so nothing can be decoded through it.
C23_BadRomBuildsNothing ==
    /\ [](ret.op = "PokemonRedGameWrapper" /\ ret.args[2] # "valid" => ~HasObject(ret.s))
    /\ [][ret'.op = "PokemonRedGameWrapper" /\ ret'.args[2] # "valid"
            => /\ ret'.args[2] = "missing" => ret'.error = "FileNotFoundError"
               /\ ret'.args[2] = "invalid" => ret'.error = "ValueError"
               /\ ret'.calls = <<>>
               /\ created' = created /\ emu' = emu /\ sess' = sess]_vars

C23_Witness ==
    /\ ret.op = "PokemonRedGameWrapper" /\ ret.args[2] = "invalid"
    /\ ret.error = "ValueError"
    /\ created = 0 /\ ~HasObject(ret.s)


\* C24: render on a headless session returns the current frame and runs
\* no frame; render on a 'human' session runs exactly one frame, presses
\* no button and returns None.
C24_RenderFrameOrTick ==
    [][ret'.op = "render" =>
         LET s == ret'.s
             e == sess[s].pyboy
         IN  /\ ret'.error = "none"
             /\ sess' = sess
             /\ IF sess[s].headless
                THEN /\ ret'.value = <<get_screen(emu[e])>>
                     /\ ret'.calls = <<>>
                     /\ emu' = emu
                ELSE /\ ret'.value = <<None>>
                     /\ ret'.calls = <<Call(e, "tick", 1)>>
                     /\ emu'[e].ticks = emu[e].ticks + 1]_vars


\* ---------------------------------------------------- the session manager

\* The session records other than that of id are what they were.
OthersKept(id) ==
    /\ DOMAIN sessions' = DOMAIN sessions \cup {id}
    /\ \A other \in DOMAIN sessions \ {id} : sessions'[other] = sessions[other]

\* C25: a created session starts with an empty history; every step on it
\* appends the pair (observation, action) at the end, the action being the
\* answer of the agent the session had when the step was made, and returns
\* that action; switch_agent changes the agent and nothing else; no call
\* changes another session; a step on an id never created raises the key
\* error and changes no session.
C25_SessionHistory ==
    [][LET id == ret'.s
       IN  /\ ret'.op = "create_session" =>
                /\ OthersKept(id)
                /\ sessions'[id].history = <<>>
                /\ sessions'[id].agent = ret'.args[1]
           /\ ret'.op = "SessionManager.step" =>
                IF id \in DOMAIN sessions
                THEN /\ ret'.error = "none"
                     /\ OthersKept(id)
                     /\ Len(ret'.value) = 1
                     /\ ret'.value[1] = [by |-> sessions[id].agent, on |-> ret'.args[1]]
                     /\ sessions'[id].history =
                          sessions[id].history \o <<<<ret'.args[1], ret'.value[1]>>>>
                     /\ sessions'[id].agent = sessions[id].agent
                ELSE /\ ret'.error = "KeyError"
                     /\ sessions' = sessions
           /\ ret'.op = "switch_agent" /\ id \in DOMAIN sessions =>
                /\ OthersKept(id)
                /\ sessions'[id] = [sessions[id] EXCEPT !.agent = ret'.args[1]]
           /\ ret'.op = "get_history" =>
                /\ sessions' = sessions
                /\ id \in DOMAIN sessions => ret'.value = <<sessions[id].history>>]_vars

C25_Witness ==
    /\ DOMAIN sessions = SessionIds
    /\ Len(sessions["x"].history) = 2
    /\ sessions["x"].history[1][2].by # sessions["x"].history[2][2].by
    /\ sessions["x"].history[1][1] # sessions["x"].history[2][1]
    /\ Len(sessions["y"].history) = 1
    /\ ret.op = "SessionManager.step" /\ ret.s = "x"


\* ------------------------------------------------------------ the text

\* The bytes of the character table other than the terminator, and the
\* character of each.
TableBytes == (\h7F .. \h99) \cup (\hA0 .. \hB9) \cup (\hF6 .. \hFF)

Glyph(b) ==
    IF b = \h7F THEN " "
    ELSE IF b <= \h99 THEN Upper[b - \h7F]
    ELSE IF b <= \hB9 THEN Lower[b - \h9F]
    ELSE Digits[b - \hF5]

NotTerminator(b) == b # \h50

\* C26: decode_text gives, for any list of bytes, one character per byte
\* other than 0x50, in the order of the list: the table's character for a
\* byte of the table, '?' for any other byte; 0x50 gives nothing.
C26_DecodeText ==
    Called("decode_text") =>
        LET kept == SelectSeq(given[1], NotTerminator)
            text == out[1].value
        IN  /\ Len(text) = Len(kept)
            /\ \A i \in 1 .. Len(kept) :
                 text[i] = IF kept[i] \in TableBytes THEN Glyph(kept[i]) ELSE "?"

C26_Witness ==
    /\ Called("decode_text")
    /\ given[1] = <<\h80, \h50, \h00>>
    /\ out[1].value = <<"A", "?">>


\* C27: get_time_played is (bcd(b0), bcd(b1), bcd(b2), bcd(b3)) of the
\* bytes at 0xDA40..0xDA43, as hours, minutes, seconds, frames; each
\* component comes from its own byte alone, with no carry and no range
\* check, and a byte with an invalid nibble makes its own component 0.
C27_TimePlayed ==
    Called("get_time_played") =>
        /\ Len(out[1].value) = 4
        /\ \A i \in 1 .. 4 : out[1].value[i] = BcdValue(ram[\hDA40 + i - 1])
        /\ out[1].reads = <<\hDA40, \hDA41, \hDA42, \hDA43>>

C27_Witness ==
    /\ Called("get_time_played")
    /\ ram[\hDA40] = \h0A /\ ram[\hDA41] = \h60 /\ ram[\hDA42] = \h99 /\ ram[\hDA43] = \hF0
    /\ out[1].value = <<0, 60, 99, 0>>


\* C28: with a party of one or more, get_party_species returns the same
\* list whatever the byte after the expected end of the list (0xD164 +
\* party_count) is, and logs a diagnostic exactly when that byte is not
\* 0xFF.
C28_MissingTerminator ==
    Called("get_party_species") /\ ram[\hD163] > 0 =>
        LET after == \hD164 + ram[\hD163]
        IN  /\ \A b \in SpeciesSamples :
                 get_party_species([ram EXCEPT ![after] = b]).value = out[1].value
            /\ out[1].diag # <<>> <=> ram[after] # \hFF
            /\ out[1].diag # <<>> => out[1].diag = <<after>>

C28_Witness ==
    /\ Called("get_party_species")
    /\ ram[\hD163] = 3
    /\ ram[\hD164 + 3] = \h99
    /\ out[1].diag = <<\hD164 + 3>>
    /\ out[1].value = <<\hB3, \h99, \hB3>>


\* The keys of the info dictionary.
InfoKeys ==
    {"player_x", "player_y", "map_id", "party_count", "player_money", "rival_name",
     "player_name", "badges", "pokedex_owned", "pokedex_seen", "time_played",
     "party_species", "party_data"}

\* C29: whatever the memory holds, the snapshot is made and has all
\* thirteen fields; every address it reads is an address of the 64 KiB
\* memory, and every field has a value of its kind.
C29_SnapshotTotal ==
    Called("get_info") =>
        /\ DOMAIN Info = InfoKeys
        /\ \A k \in DOMAIN out[1].reads : out[1].reads[k] \in 0 .. \hFFFF
        /\ Info.party_count \in Bytes /\ Info.badges \in Bytes /\ Info.map_id \in Bytes
        /\ Info.player_x \in Bytes /\ Info.player_y \in Bytes
        /\ Info.player_money \in 0 .. 999999
        /\ Info.pokedex_owned \in 0 .. 65535 /\ Info.pokedex_seen \in 0 .. 65535
        /\ Len(Info.rival_name) <= 7 /\ Len(Info.player_name) <= 7
        /\ Len(Info.time_played) = 4
        /\ Len(Info.party_species) <= Info.party_count
        /\ Len(Info.party_data) = Info.party_count

C29_Witness ==
    /\ Called("get_info")
    /\ Info.party_count = 255
    /\ Len(Info.party_data) = 255
    /\ out[1].reads[Len(out[1].reads)] = \hFD3E
    /\ out[1].diag # <<>>


\* C30: decoding reads and nothing else: a call that yields a snapshot or
\* a party list leaves the memory and the frame count as they were; the
\* snapshot is that of the bytes in memory at the call, so two snapshots
\* with no frame run between them are equal and a snapshot taken after
\* the memory changed shows the new bytes.
C30_ReadOnlyUncached ==
    /\ [](Current("get_info") =>
            /\ Info = get_info_fields(ram).value
            /\ Info.party_count = ram[\hD163]
            /\ Info.player_x = ram[\hD361] /\ Info.player_y = ram[\hD362]
            /\ Info.map_id = ram[\hD35E] /\ Info.badges = ram[\hD356]
            /\ \A k \in DOMAIN out[1].reads : out[1].reads[k] \in DOMAIN ram)
    /\ [][out' # out => ram' = ram /\ given' = given /\ out'[2] = given[1]]_vars
    /\ [][Current("get_info") /\ Current("get_info")' /\ given' = given
            => out' = out]_vars

C30_Witness ==
    /\ Current("get_info")
    /\ given = <<MaxInfoTicks>>
    /\ ram[\hD163] = 2
    /\ Info.party_count = 2
    /\ Len(Info.party_data) = 2


====
